---- MODULE Spec2Model ----
(***************************************************************************)
(* Reconciliation engine of caddy-dns-sync (internal/reconcile/engine.go). *)
(*                                                                         *)
(* Go strings are modelled as sequences of one-character strings, so that  *)
(* strings.HasSuffix, strings.TrimSuffix, strings.Contains, strings.Cut,   *)
(* net.SplitHostPort and net.ParseIP are computed the way the code         *)
(* computes them.                                                          *)
(***************************************************************************)
EXTENDS Integers, Sequences, FiniteSets, TLC

(***************************************************************************)
(* Bounds of the model.                                                    *)
(***************************************************************************)
\* number of Reconcile invocations explored in one behaviour
MaxRuns == 2
\* number of provider / state-store calls that may return an error
MaxFaults == 2

(***************************************************************************)
(* strings package                                                         *)
(***************************************************************************)
HasPrefix(s, p) == Len(s) >= Len(p) /\ SubSeq(s, 1, Len(p)) = p

HasSuffix(s, p) == Len(s) >= Len(p) /\ SubSeq(s, Len(s) - Len(p) + 1, Len(s)) = p

TrimPrefix(s, p) == IF HasPrefix(s, p) THEN SubSeq(s, Len(p) + 1, Len(s)) ELSE s

TrimSuffix(s, p) == IF HasSuffix(s, p) THEN SubSeq(s, 1, Len(s) - Len(p)) ELSE s

\* 1-based position of the first occurrence of p in s, 0 when there is none
Index(s, p) ==
  LET hits == {i \in 1..(Len(s) - Len(p) + 1) : SubSeq(s, i, i + Len(p) - 1) = p}
  IN IF hits = {} THEN 0 ELSE CHOOSE i \in hits : \A j \in hits : i <= j

\* 1-based position of the last occurrence of p in s, 0 when there is none
LastIndex(s, p) ==
  LET hits == {i \in 1..(Len(s) - Len(p) + 1) : SubSeq(s, i, i + Len(p) - 1) = p}
  IN IF hits = {} THEN 0 ELSE CHOOSE i \in hits : \A j \in hits : i >= j

Contains(s, p) == Index(s, p) # 0

\* strings.Cut: the text before and after the first sep, and whether sep was found
Cut(s, sep) ==
  LET i == Index(s, sep)
  IN IF i = 0 THEN [before |-> s, after |-> <<>>, found |-> FALSE]
     ELSE [before |-> SubSeq(s, 1, i - 1),
           after |-> SubSeq(s, i + Len(sep), Len(s)),
           found |-> TRUE]

\* strings.Trim: strip leading and trailing characters that are in cutset
Trim(s, cutset) ==
  LET keep == {i \in 1..Len(s) : s[i] \notin cutset}
  IN IF keep = {} THEN <<>>
     ELSE SubSeq(s, CHOOSE i \in keep : \A j \in keep : i <= j,
                    CHOOSE i \in keep : \A j \in keep : i >= j)

\* strings.Split on a one-character separator
RECURSIVE Split(_, _)
Split(s, c) ==
  LET i == Index(s, <<c>>)
  IN IF i = 0 THEN <<s>>
     ELSE <<SubSeq(s, 1, i - 1)>> \o Split(SubSeq(s, i + 1, Len(s)), c)

(***************************************************************************)
(* net package: ParseIP and SplitHostPort                                  *)
(***************************************************************************)
Digits == {"0", "1", "2", "3", "4", "5", "6", "7", "8", "9"}

HexDigits == Digits \cup {"a", "b", "c", "d", "e", "f", "A", "B", "C", "D", "E", "F"}

DigitVal(c) ==
  CASE c = "0" -> 0 [] c = "1" -> 1 [] c = "2" -> 2 [] c = "3" -> 3 [] c = "4" -> 4
    [] c = "5" -> 5 [] c = "6" -> 6 [] c = "7" -> 7 [] c = "8" -> 8 [] c = "9" -> 9
    [] OTHER -> 0

RECURSIVE DecVal(_)
DecVal(f) == IF f = <<>> THEN 0 ELSE 10 * DecVal(SubSeq(f, 1, Len(f) - 1)) + DigitVal(f[Len(f)])

\* one field of a dotted IPv4 literal: 1..3 digits, no leading zero, at most 255
IsDecByte(f) ==
  /\ Len(f) \in 1..3
  /\ \A i \in 1..Len(f) : f[i] \in Digits
  /\ (Len(f) > 1 => f[1] # "0")
  /\ DecVal(f) <= 255

IsIPv4(s) ==
  LET fs == Split(s, ".")
  IN Len(fs) = 4 /\ \A i \in 1..4 : IsDecByte(fs[i])

\* one 16-bit group of an IPv6 literal: 1..4 hex digits
IsHexGroup(g) == Len(g) \in 1..4 /\ \A i \in 1..Len(g) : g[i] \in HexDigits

\* the groups of one side of "::" (an empty side has no group)
SideGroups(s) == IF s = <<>> THEN <<>> ELSE Split(s, ":")

\* groups gs are well formed: hex groups, the last one possibly a dotted IPv4
\* (worth two groups) when allowV4; result is the number of 16-bit fields or -1
FieldCount(gs, allowV4) ==
  IF gs = <<>> THEN 0
  ELSE LET n == Len(gs)
           lastV4 == allowV4 /\ IsIPv4(gs[n])
       IN IF /\ \A i \in 1..(n - 1) : IsHexGroup(gs[i])
             /\ (IsHexGroup(gs[n]) \/ lastV4)
          THEN IF lastV4 THEN n + 1 ELSE n
          ELSE -1

IsIPv6(s) ==
  LET e == Index(s, <<":", ":">>)
  IN IF e = 0
     THEN FieldCount(SideGroups(s), TRUE) = 8
     ELSE LET left == SubSeq(s, 1, e - 1)
              right == SubSeq(s, e + 2, Len(s))
              l == FieldCount(SideGroups(left), FALSE)
              r == FieldCount(SideGroups(right), TRUE)
          IN l >= 0 /\ r >= 0 /\ l + r <= 7

IsZeroGroup(g) == \A i \in 1..Len(g) : g[i] = "0"

IsFFFFGroup(g) == Len(g) = 4 /\ \A i \in 1..4 : g[i] \in {"f", "F"}

\* a parseable IPv6 literal whose 16 bytes are an IPv4-mapped address
\* (::ffff:a.b.c.d), for which IP.To4 is not nil
IsV4Mapped(s) ==
  LET e == Index(s, <<":", ":">>)
      left == IF e = 0 THEN SideGroups(s) ELSE SideGroups(SubSeq(s, 1, e - 1))
      right == IF e = 0 THEN <<>> ELSE SideGroups(SubSeq(s, e + 2, Len(s)))
      rn == IF right # <<>> /\ IsIPv4(right[Len(right)]) THEN Len(right) + 1 ELSE Len(right)
      ln == IF e = 0 /\ left # <<>> /\ IsIPv4(left[Len(left)]) THEN Len(left) + 1 ELSE Len(left)
      \* field k (1..8) of the expanded address, as a group of the text
      field(k) == IF k <= Len(left) /\ k <= ln THEN left[k]
                  ELSE IF k > 8 - rn THEN right[k - (8 - rn)]
                  ELSE <<"0">>
  IN /\ IsIPv6(s)
     /\ \A k \in 1..5 : IsZeroGroup(field(k))
     /\ IsFFFFGroup(field(6))

\* net.ParseIP followed by the To4 test of getRecordType: "4", "6" or "" (nil)
ParseIP(s) ==
  IF IsIPv4(s) THEN "4"
  ELSE IF IsIPv6(s) THEN (IF IsV4Mapped(s) THEN "4" ELSE "6")
  ELSE ""

\* net.SplitHostPort: [ok, host]
SplitHostPort(hp) ==
  LET i == LastIndex(hp, <<":">>)
      bad == [ok |-> FALSE, host |-> <<>>]
  IN IF i = 0 THEN bad
     ELSE IF hp[1] = "["
     THEN LET end == Index(hp, <<"]">>)
          IN IF end = 0 \/ end + 1 # i THEN bad
             ELSE IF \/ Contains(SubSeq(hp, 2, Len(hp)), <<"[">>)
                     \/ Contains(SubSeq(hp, end + 1, Len(hp)), <<"]">>)
             THEN bad
             ELSE [ok |-> TRUE, host |-> SubSeq(hp, 2, end - 1)]
     ELSE LET host == SubSeq(hp, 1, i - 1)
          IN IF \/ Contains(host, <<":">>)
                \/ Contains(hp, <<"[">>)
                \/ Contains(hp, <<"]">>)
             THEN bad
             ELSE [ok |-> TRUE, host |-> host]

(***************************************************************************)
(* Helpers of the engine                                                   *)
(***************************************************************************)
\* the zone test without the dot: any host whose text ends with the zone
belongsToZoneSuffix(host, zone) == HasSuffix(host, zone) \/ host = zone

belongsToZone(host, zone) == host = zone \/ HasSuffix(host, <<".">> \o zone)

getRecordName(host, zone) ==
  IF host = zone THEN <<"@">> ELSE TrimSuffix(host, <<".">> \o zone)

getRecordType(host0) ==
  LET host1 ==
        IF HasPrefix(host0, <<"[">>)
        THEN IF Contains(host0, <<"]", ":">>)
             THEN (IF SplitHostPort(host0).ok THEN SplitHostPort(host0).host ELSE host0)
             ELSE TrimSuffix(TrimPrefix(host0, <<"[">>), <<"]">>)
        ELSE host0
  IN IF ParseIP(host1) = "4" THEN "A"
     ELSE IF ParseIP(host1) = "6" THEN "AAAA"
     ELSE IF SplitHostPort(host1).ok /\ ParseIP(SplitHostPort(host1).host) = "4" THEN "A"
     ELSE IF SplitHostPort(host1).ok /\ ParseIP(SplitHostPort(host1).host) = "6" THEN "AAAA"
     ELSE "CNAME"

extractHostFromUpstream(upstream) ==
  IF upstream = <<>> THEN <<>>
  ELSE IF /\ HasPrefix(upstream, <<"[">>)
          /\ Contains(upstream, <<"]", ":">>)
          /\ SplitHostPort(upstream).ok
  THEN Trim(SplitHostPort(upstream).host, {"[", "]"})
  ELSE Cut(upstream, <<":">>).before

\* "heritage=caddy-dns-sync"
Heritage ==
  <<"h", "e", "r", "i", "t", "a", "g", "e", "=",
    "c", "a", "d", "d", "y", "-", "d", "n", "s", "-", "s", "y", "n", "c">>

\* "caddy-dns-sync/owner="
OwnerKey ==
  <<"c", "a", "d", "d", "y", "-", "d", "n", "s", "-", "s", "y", "n", "c",
    "/", "o", "w", "n", "e", "r", "=">>

\* the marker wrapped in double quotes
txtIdentifierQuoted(owner) == <<"\"">> \o Heritage \o <<",">> \o OwnerKey \o owner \o <<"\"">>

\* fmt.Sprintf("heritage=caddy-dns-sync,caddy-dns-sync/owner=%s", owner)
txtIdentifier(owner) == Heritage \o <<",">> \o OwnerKey \o owner

(***************************************************************************)
(* Inputs of the model: zones, hosts, upstreams, owners                    *)
(***************************************************************************)
\* "e.c" and "f.c"
Zone1 == <<"e", ".", "c">>

Zone2 == <<"f", ".", "c">>

\* "a.e.c", a host of Zone1
HostA == <<"a", ".", "e", ".", "c">>

\* "p.f.c", a host of Zone2, the one the protected set may name
HostP == <<"p", ".", "f", ".", "c">>

Hosts == {HostA, HostP}

\* "1.1.1.1:8", "[::1]:8" and "c"
UpV4 == <<"1", ".", "1", ".", "1", ".", "1", ":", "8">>

UpV6 == <<"[", ":", ":", "1", "]", ":", "8">>

UpName == <<"c">>

Upstreams == {UpV4, UpV6, UpName}

\* two owner strings, the first a prefix of the second: "o" and "ob"
OwnerO == <<"o">>

OwnerOB == <<"o", "b">>

Owners == {OwnerO, OwnerOB}

\* source.DomainConfig
DomainConfigs == [Host : Hosts, Upstream : Upstreams]

\* the desired lists handed to Reconcile: HostA with any upstream, HostP with
\* an IPv4 or a name upstream, each host at most once
DesiredLists ==
  LET as == {d \in DomainConfigs : d.Host = HostA}
      ps == {d \in DomainConfigs : d.Host = HostP /\ d.Upstream # UpV6}
  IN {<<>>} \cup {<<d>> : d \in as \cup ps} \cup {<<d1, d2>> : d1 \in as, d2 \in ps}

\* provider.Record (the ID field, opaque to the engine, is left out)
Rec(name, type, data, zone) ==
  [Name |-> name, Type |-> type, Data |-> data, TTL |-> 3600, Zone |-> zone]

\* all sequences that list every element of the finite set S exactly once
RECURSIVE Orderings(_)
Orderings(S) ==
  IF S = {} THEN {<<>>}
  ELSE UNION {{<<x>> \o t : t \in Orderings(S \ {x})} : x \in S}

Range(f) == {f[i] : i \in DOMAIN f}

(***************************************************************************)
(* State                                                                   *)
(***************************************************************************)
VARIABLES
  cfg,        \* engine fields read at construction: dryRun, protected, owner, zones
  store,      \* State Store content: host -> DomainState
  zoneRecs,   \* DNS provider content: zone -> set of records
  pc,         \* position of the (single) Reconcile call
  runs,       \* number of Reconcile calls started; also the clock of time.Now
  faults,     \* number of collaborator calls that returned an error so far
  pre,        \* store and provider content when the current run started
  loaded,     \* whether LoadState of the current run succeeded
  currentState, \* the state built from the desired list
  changes,    \* output of compareStates, in the iteration order of the run
  zi,         \* index of the zone generatePlan is about to process
  plan,       \* Plan{Create, Delete}
  ci,         \* index into plan.Create / plan.Delete of the next operation
  results,    \* Results{Created, Deleted, Failures}
  err,        \* the error Reconcile returns ("" is nil)
  calls,      \* collaborator calls of the current run, in order
  last,       \* desired state and outcome of the previous run
  domains,    \* the desired list handed to the current Reconcile call
  cancelledAt, \* number of calls made when the run's context was cancelled, or -1
  db,         \* the badger database behind the State Store: key -> stored value
  svc         \* the service's sync loop: its position, the ticker channel, calls in flight

vars ==
  <<cfg, store, zoneRecs, pc, runs, faults, pre, loaded, currentState, changes,
    zi, plan, ci, results, err, calls, last, domains, cancelledAt, db, svc>>

EmptyState == [h \in {} |-> [ServerName |-> <<>>, LastSeen |-> 0]]

EmptyPlan == [Create |-> <<>>, Delete |-> <<>>]

EmptyResults == [Created |-> <<>>, Deleted |-> <<>>, Failures |-> <<>>]

EmptyChanges == [Added |-> <<>>, Removed |-> <<>>]

NoRecord == Rec(<<>>, "", <<>>, <<>>)

Call(op, zone, rec, ok) == [op |-> op, zone |-> zone, rec |-> rec, ok |-> ok]

(***************************************************************************)
(* Collaborators: the DNS provider and the state store                     *)
(***************************************************************************)
\* Provider.CreateRecord succeeding: the zone gains the record; creating a
\* record that is already there does not duplicate it
ProviderCreate(recs, zone, r) ==
  [recs EXCEPT ![zone] = @ \cup {Rec(r.Name, r.Type, r.Data, zone)}]

\* Provider.DeleteRecord succeeding: the zone loses the record
ProviderDelete(recs, zone, r) ==
  [recs EXCEPT ![zone] = @ \ {Rec(r.Name, r.Type, r.Data, zone)}]

\* "domain:", the prefix of the keys of the badger database
domainPrefix == <<"d", "o", "m", "a", "i", "n", ":">>

\* json.Marshal of a DomainState: an object with the fields serverName and
\* lastSeen
Marshal(d) == [serverName |-> d.ServerName, lastSeen |-> d.LastSeen]

\* json.Unmarshal into a DomainState
Unmarshal(v) == [ServerName |-> v.serverName, LastSeen |-> v.lastSeen]

EmptyDb == [k \in {} |-> Marshal([ServerName |-> <<>>, LastSeen |-> 0])]

\* the hosts of the keys an iterator over the prefix visits
StoredHosts(d) ==
  {SubSeq(k, Len(domainPrefix) + 1, Len(k)) : k \in {x \in DOMAIN d : HasPrefix(x, domainPrefix)}}

\* badgerManager.LoadState: every key under the prefix, the host cut out of
\* the key, the value decoded
BadgerLoadState(d) == [h \in StoredHosts(d) |-> Unmarshal(d[domainPrefix \o h])]

\* a SaveState transaction that sets the given hosts and deletes nothing
BadgerSaveStateNoDelete(d, state) ==
  LET sets == {domainPrefix \o h : h \in DOMAIN state}
  IN [k \in (DOMAIN d) \cup sets |->
        IF k \in sets
        THEN Marshal(state[SubSeq(k, Len(domainPrefix) + 1, Len(k))])
        ELSE d[k]]

\* badgerManager.SaveState committing: one transaction that sets the key of
\* every host of the given state and deletes the keys of the hosts that were
\* stored and are not in it
BadgerSaveState(d, state) ==
  LET existingHosts == StoredHosts(d)
      sets == {domainPrefix \o h : h \in DOMAIN state}
      dels == {domainPrefix \o h : h \in existingHosts \ (DOMAIN state)}
  IN [k \in ((DOMAIN d) \cup sets) \ dels |->
        IF k \in sets
        THEN Marshal(state[SubSeq(k, Len(domainPrefix) + 1, Len(k))])
        ELSE d[k]]

\* the writes a SaveState transaction holds when one of its steps returns an
\* error: the sets of some hosts of the given state (a map is ranged over in
\* any order) and, once every host is set, the deletes of some of the stored
\* hosts that are not in it; all of them when it is Commit that fails
PendingWrites(d, state) ==
  LET gone == StoredHosts(d) \ (DOMAIN state)
  IN {[sets |-> hs, dels |-> {}] : hs \in SUBSET (DOMAIN state)}
       \cup {[sets |-> DOMAIN state, dels |-> gs] : gs \in SUBSET gone}

\* writes that go to the database one by one, outside a transaction
TxnWritten(d, state, w) ==
  LET sets == {domainPrefix \o h : h \in w.sets}
      dels == {domainPrefix \o h : h \in w.dels}
  IN [k \in ((DOMAIN d) \cup sets) \ dels |->
        IF k \in sets
        THEN Marshal(state[SubSeq(k, Len(domainPrefix) + 1, Len(k))])
        ELSE d[k]]

\* the deferred txn.Discard of a transaction that was not committed: its
\* pending writes are dropped
TxnDiscard(d, state, w) == d

\* badgerManager.SaveState returning an error: the databases it can leave
BadgerSaveStateFailed(d, state) == {TxnDiscard(d, state, w) : w \in PendingWrites(d, state)}

\* the sync loop of a service that is not part of the behaviour
NoService ==
  [loop |-> "none", tick |-> FALSE, inFlight |-> 0, cancelled |-> FALSE, main |-> "none",
   sourceErr |-> FALSE]

\* a SaveState that writes the given hosts over the old content and keeps the
\* hosts the given state no longer has
SaveStateMerge(old, new) ==
  [h \in (DOMAIN old) \cup (DOMAIN new) |-> IF h \in DOMAIN new THEN new[h] ELSE old[h]]

\* Manager.SaveState succeeding: the content is replaced by the given state
SaveState(old, new) == new

\* a SaveState whose failed transaction has written the given state anyway
SaveStateFailedWritten(old, new) == new

\* Manager.SaveState returning an error: the transaction is discarded and the
\* content stays what it was
SaveStateFailed(old, new) == old

\* whether one more collaborator call may fail
MayFail == faults < MaxFaults

(***************************************************************************)
(* Initial states: the engine is constructed over an existing store and    *)
(* existing zones                                                          *)
(***************************************************************************)
NameA == getRecordName(HostA, Zone1)

NameP == getRecordName(HostP, Zone2)

SeedData == extractHostFromUpstream(UpV4)

SeedState ==
  [h \in Hosts |-> [ServerName |-> UpV4, LastSeen |-> 0]]

\* address records only, left by somebody else
SeedUnowned ==
  (Zone1 :> {Rec(NameA, "A", SeedData, Zone1)})
    @@ (Zone2 :> {Rec(NameP, "A", SeedData, Zone2)})

\* address records with an ownership TXT record naming owner
SeedOwned(owner) ==
  (Zone1 :> {Rec(NameA, "A", SeedData, Zone1),
             Rec(NameA, "TXT", txtIdentifier(owner), Zone1)})
    @@ (Zone2 :> {Rec(NameP, "A", SeedData, Zone2),
                  Rec(NameP, "TXT", txtIdentifier(owner), Zone2)})

NoRecords == (Zone1 :> {}) @@ (Zone2 :> {})

Seeds ==
  {[store |-> EmptyState, recs |-> NoRecords],
   [store |-> EmptyState, recs |-> SeedUnowned]}
    \cup {[store |-> SeedState, recs |-> SeedOwned(o)] : o \in Owners}

NoRun ==
  [ran |-> FALSE, desired |-> EmptyState, nilErr |-> FALSE, clean |-> FALSE,
   added |-> {}, removed |-> {}, failedNames |-> {}, saveFailed |-> FALSE]

\* NewEngine
NewEngine(dryRun, protectedRecords, owner, zones) ==
  [dryRun |-> dryRun, protected |-> protectedRecords, owner |-> owner, zones |-> zones]

Init ==
  /\ \E dryRun \in BOOLEAN, prot \in {{}, {HostP}}, owner \in Owners :
       cfg = NewEngine(dryRun, prot, owner, <<Zone1, Zone2>>)
  /\ \E seed \in Seeds :
       /\ store = seed.store
       /\ zoneRecs = seed.recs
       /\ pre = [store |-> seed.store, recs |-> seed.recs]
  /\ pc = "idle"
  /\ runs = 0
  /\ faults = 0
  /\ loaded = FALSE
  /\ currentState = EmptyState
  /\ changes = EmptyChanges
  /\ zi = 1
  /\ plan = EmptyPlan
  /\ ci = 1
  /\ results = EmptyResults
  /\ err = ""
  /\ calls = <<>>
  /\ last = NoRun
  /\ domains = <<>>
  /\ cancelledAt = -1
  /\ db = BadgerSaveState(EmptyDb, store)
  /\ svc = NoService

(***************************************************************************)
(* Diff                                                                    *)
(***************************************************************************)
\* the state Reconcile builds from the desired list: a later entry for a host
\* overwrites an earlier one
RECURSIVE BuildState(_, _)
BuildState(ds, now) ==
  IF ds = <<>> THEN EmptyState
  ELSE LET n == Len(ds)
           d == ds[n]
           rest == BuildState(SubSeq(ds, 1, n - 1), now)
       IN [h \in (DOMAIN rest) \cup {d.Host} |->
             IF h = d.Host THEN [ServerName |-> d.Upstream, LastSeen |-> now]
             ELSE rest[h]]

\* a diff that compares the whole DomainState, lastSeen included
compareStatesWholeStruct(current, previous) ==
  [Added |->
     {[Host |-> h, Upstream |-> current[h].ServerName] :
        h \in {x \in DOMAIN current :
                 x \notin DOMAIN previous \/ previous[x] # current[x]}},
   Removed |-> {h \in DOMAIN previous : h \notin DOMAIN current}]

\* a diff that reports a host only when it is new, not when its upstream changed
compareStatesNewOnly(current, previous) ==
  [Added |->
     {[Host |-> h, Upstream |-> current[h].ServerName] :
        h \in {x \in DOMAIN current : x \notin DOMAIN previous}},
   Removed |-> {h \in DOMAIN previous : h \notin DOMAIN current}]

\* compareStates, as the sets the two loops collect (their order is that of
\* Go's map iteration, chosen by the caller)
compareStates(current, previous) ==
  [Added |->
     {[Host |-> h, Upstream |-> current[h].ServerName] :
        h \in {x \in DOMAIN current :
                 x \notin DOMAIN previous
                   \/ previous[x].ServerName # current[x].ServerName}},
   Removed |-> {h \in DOMAIN previous : h \notin DOMAIN current}]

\* StateChanges.IsEmpty
IsEmpty(st) == Len(st.Added) = 0 /\ Len(st.Removed) = 0

(***************************************************************************)
(* Plan generation                                                         *)
(***************************************************************************)
isProtected(c, name) == name \in c.protected

\* the fetched records the partition loop files under recordMap
IsMainRecord(r) == r.Type \in {"A", "CNAME"}

\* the fetched records the partition loop files under managedTXTRecords
IsManagedTXT(c, r) ==
  /\ r.Type = "TXT"
  /\ Contains(r.Data, Heritage)
  /\ Contains(r.Data, OwnerKey \o c.owner)

\* a partition loop that keys the maps by the name as the provider returned it
PartitionKeyRaw(r, zone) == r.Name

\* the key the partition loop files a fetched record under
PartitionKey(r, zone) == getRecordName(r.Name, zone)

\* the maps the partition loop can build from the fetched records it keeps:
\* one record per zone-relative name, the one that comes last in the order
\* the provider listed them
PartitionMaps(kept, zone) ==
  LET names == {PartitionKey(r, zone) : r \in kept}
  IN {m \in [names -> kept] : \A n \in names : PartitionKey(m[n], zone) = n}

\* a plan that files every new record under the first configured zone
RecordZoneFirst(c, zone) == c.zones[1]

\* the Zone field of the records the additions loop builds: the zone being
\* processed
RecordZone(c, zone) == zone

\* one iteration of the additions loop
AddDomain(c, zone, recordMap, managedTXT, p, domain) ==
  IF ~belongsToZone(domain.Host, zone) THEN p
  ELSE IF isProtected(c, domain.Host) THEN p
  ELSE
    LET recordName == getRecordName(domain.Host, zone)
        host == extractHostFromUpstream(domain.Upstream)
        recordType == getRecordType(host)
        desiredData == host
        mainExists == recordName \in DOMAIN recordMap
        txtExists == recordName \in DOMAIN managedTXT
    IN IF /\ mainExists
          /\ txtExists
          /\ recordMap[recordName].Data = desiredData
          /\ managedTXT[recordName].Data = txtIdentifier(c.owner)
       THEN p
       ELSE [Create |-> p.Create
                          \o <<Rec(recordName, recordType, desiredData, RecordZone(c, zone)),
                               Rec(recordName, "TXT", txtIdentifier(c.owner),
                                   RecordZone(c, zone))>>,
             Delete |-> p.Delete
                          \o (IF mainExists THEN <<recordMap[recordName]>> ELSE <<>>)
                          \o (IF txtExists THEN <<managedTXT[recordName]>> ELSE <<>>)]

\* one iteration of the removals loop
RemoveHost(c, zone, recordMap, managedTXT, p, host) ==
  IF ~belongsToZone(host, zone) THEN p
  ELSE
    LET recordName == getRecordName(host, zone)
        mainExists == recordName \in DOMAIN recordMap
        txtExists == recordName \in DOMAIN managedTXT
    IN IF isProtected(c, recordName) THEN p
       ELSE IF mainExists /\ ~txtExists THEN p
       ELSE [Create |-> p.Create,
             Delete |-> p.Delete
                          \o (IF mainExists THEN <<recordMap[recordName]>> ELSE <<>>)
                          \o (IF txtExists THEN <<managedTXT[recordName]>> ELSE <<>>)]

RECURSIVE ProcessAdditions(_, _, _, _, _, _)
ProcessAdditions(c, zone, recordMap, managedTXT, p, added) ==
  IF added = <<>> THEN p
  ELSE ProcessAdditions(c, zone, recordMap, managedTXT,
                        AddDomain(c, zone, recordMap, managedTXT, p, Head(added)),
                        Tail(added))

RECURSIVE ProcessRemovals(_, _, _, _, _, _)
ProcessRemovals(c, zone, recordMap, managedTXT, p, removed) ==
  IF removed = <<>> THEN p
  ELSE ProcessRemovals(c, zone, recordMap, managedTXT,
                       RemoveHost(c, zone, recordMap, managedTXT, p, Head(removed)),
                       Tail(removed))

\* the body of generatePlan's zone loop once the records are fetched
PlanZoneBody(c, zone, recordMap, managedTXT, p, ch) ==
  ProcessRemovals(c, zone, recordMap, managedTXT,
                  ProcessAdditions(c, zone, recordMap, managedTXT, p, ch.Added),
                  ch.Removed)

(***************************************************************************)
(* Reconcile, one step per collaborator call                               *)
(***************************************************************************)
\* an executePlan that goes straight to its delete loop
FirstStepDelete(p) == "delete"

\* where executePlan starts: the create loop, or the delete loop when there is
\* nothing to create
FirstStep(p) == IF Len(p.Create) > 0 THEN "create" ELSE "delete"

\* a create loop that stops at the first failed create
StepCreateBreak(p, i, ok) ==
  IF ~ok THEN [pc |-> "persist", ci |-> 1]
  ELSE IF i < Len(p.Create) THEN [pc |-> "create", ci |-> i + 1]
  ELSE [pc |-> "delete", ci |-> 1]

\* where the create loop continues after plan.Create[i], whatever its outcome
StepCreate(p, i, ok) ==
  IF i < Len(p.Create) THEN [pc |-> "create", ci |-> i + 1]
  ELSE [pc |-> "delete", ci |-> 1]

\* a Reconcile without the short-circuit
ShortCircuitMissing(ch) == FALSE

\* whether the short-circuit of Reconcile is taken
ShortCircuit(ch) == IsEmpty(ch)

\* Reconcile up to generatePlan, called at the given time with one of the
\* given desired lists: LoadState, build the current state, diff
ReconcileCallAt(lists, now) ==
  /\ pc \in {"idle", "done"}
  /\ runs' = now
  /\ last' = IF pc = "idle" THEN NoRun
             ELSE [ran |-> TRUE,
                   desired |-> currentState,
                   nilErr |-> err = "",
                   clean |-> ~cfg.dryRun /\ err = "" /\ results.Failures = <<>> /\ loaded,
                   added |-> Range(changes.Added),
                   removed |-> Range(changes.Removed),
                   failedNames |->
                     {<<f.Record.Zone, getRecordName(f.Record.Name, f.Record.Zone)>> :
                        f \in Range(results.Failures)},
                   saveFailed |-> \E i \in 1..Len(calls) :
                                    calls[i].op = "SaveState" /\ ~calls[i].ok]
  /\ pre' = [store |-> store, recs |-> zoneRecs]
  /\ zi' = 1
  /\ ci' = 1
  /\ plan' = EmptyPlan
  /\ results' = EmptyResults
  /\ cancelledAt' = -1
  /\ UNCHANGED <<cfg, store, zoneRecs, db>>
  /\ \E ds \in lists :
       /\ domains' = ds
       /\ currentState' = BuildState(ds, now)
       /\ \/ \* LoadState returns an error
             /\ MayFail
             /\ faults' = faults + 1
             /\ loaded' = FALSE
             /\ changes' = EmptyChanges
             /\ err' = "load state"
             /\ calls' = <<Call("LoadState", <<>>, NoRecord, FALSE)>>
             /\ pc' = "done"
          \/ \* LoadState succeeds
             /\ UNCHANGED faults
             /\ loaded' = TRUE
             /\ err' = ""
             /\ calls' = <<Call("LoadState", <<>>, NoRecord, TRUE)>>
             /\ LET diff == compareStates(BuildState(ds, now), store)
                IN \E added \in Orderings(diff.Added), removed \in Orderings(diff.Removed) :
                     /\ changes' = [Added |-> added, Removed |-> removed]
                     /\ pc' = IF ShortCircuit([Added |-> added, Removed |-> removed])
                              THEN "done" ELSE "plan"

\* the Reconcile calls of a behaviour, each at the time of its number
ReconcileCall(lists) == runs < MaxRuns /\ ReconcileCallAt(lists, runs + 1)

\* a Reconcile call made by a caller other than the service's sync loop
ReconcileWith(lists) == ReconcileCall(lists) /\ UNCHANGED svc

Reconcile == ReconcileWith(DesiredLists)

\* a generatePlan that skips a zone whose records cannot be listed
OnGetRecordsErrorSkip == "skip"

\* what generatePlan does when GetRecords fails for a zone: return the error
OnGetRecordsError == "done"

\* generatePlan, one zone: GetRecords, partition, additions, removals
PlanZone ==
  /\ pc = "plan"
  /\ LET zone == cfg.zones[zi]
     IN \/ \* GetRecords returns an error: Reconcile returns Results{} and the error
           /\ MayFail
           /\ faults' = faults + 1
           /\ calls' = Append(calls, Call("GetRecords", zone, NoRecord, FALSE))
           /\ IF OnGetRecordsError = "done"
              THEN /\ err' = "generate plan"
                   /\ pc' = "done"
                   /\ UNCHANGED <<plan, zi>>
              ELSE /\ UNCHANGED <<err, plan>>
                   /\ zi' = zi + 1
                   /\ pc' = IF zi < Len(cfg.zones) THEN "plan" ELSE "execute"
        \/ /\ UNCHANGED <<faults, err>>
           /\ calls' = Append(calls, Call("GetRecords", zone, NoRecord, TRUE))
           /\ \E recordMap \in PartitionMaps({r \in zoneRecs[zone] : IsMainRecord(r)}, zone),
                 managedTXT \in PartitionMaps({r \in zoneRecs[zone] : IsManagedTXT(cfg, r)},
                                              zone) :
                plan' = PlanZoneBody(cfg, zone, recordMap, managedTXT, plan, changes)
           /\ zi' = zi + 1
           /\ pc' = IF zi < Len(cfg.zones) THEN "plan" ELSE "execute"
  /\ UNCHANGED <<cfg, store, zoneRecs, runs, pre, loaded, currentState, changes, ci,
                 results, last, domains, cancelledAt,
                 db, svc>>

\* an executePlan without the dry-run branch
IsDryRunNever(c) == FALSE

\* executePlan's test of the dry-run flag
IsDryRun(c) == c.dryRun

\* executePlan, entry: the dry-run branch copies the plan and returns
ExecutePlan ==
  /\ pc = "execute"
  /\ IF IsDryRun(cfg)
     THEN /\ results' = [Created |-> plan.Create, Deleted |-> plan.Delete,
                         Failures |-> <<>>]
          /\ pc' = "done"
     ELSE /\ UNCHANGED results
          /\ pc' = FirstStep(plan)
  /\ ci' = 1
  /\ UNCHANGED <<cfg, store, zoneRecs, runs, faults, pre, loaded, currentState, changes,
                 zi, plan, err, calls, last, domains, cancelledAt,
                 db, svc>>

\* executePlan, one iteration of the create loop
CreateRecord ==
  /\ pc = "create"
  /\ LET record == plan.Create[ci]
     IN \/ /\ MayFail
           /\ faults' = faults + 1
           /\ calls' = Append(calls, Call("CreateRecord", record.Zone, record, FALSE))
           /\ results' = [results EXCEPT !.Failures =
                            Append(@, [Record |-> record, Op |-> "create", Error |-> "error"])]
           /\ UNCHANGED zoneRecs
           /\ pc' = StepCreate(plan, ci, FALSE).pc
           /\ ci' = StepCreate(plan, ci, FALSE).ci
        \/ /\ UNCHANGED faults
           /\ calls' = Append(calls, Call("CreateRecord", record.Zone, record, TRUE))
           /\ results' = [results EXCEPT !.Created = Append(@, record)]
           /\ zoneRecs' = ProviderCreate(zoneRecs, record.Zone, record)
           /\ pc' = StepCreate(plan, ci, TRUE).pc
           /\ ci' = StepCreate(plan, ci, TRUE).ci
  /\ UNCHANGED <<cfg, store, runs, pre, loaded, currentState, changes, zi, plan, err,
                 last, domains, cancelledAt,
                 db, svc>>

\* executePlan, one iteration of the delete loop (or none when plan.Delete is
\* empty), then on to the persistence decision
DeleteRecord ==
  /\ pc = "delete"
  /\ IF ci > Len(plan.Delete)
     THEN /\ pc' = "persist"
          /\ UNCHANGED <<faults, calls, results, zoneRecs, ci>>
     ELSE /\ LET record == plan.Delete[ci]
             IN \/ /\ MayFail
                   /\ faults' = faults + 1
                   /\ calls' = Append(calls, Call("DeleteRecord", record.Zone, record, FALSE))
                   /\ results' = [results EXCEPT !.Failures =
                                    Append(@, [Record |-> record, Op |-> "delete",
                                               Error |-> "error"])]
                   /\ UNCHANGED zoneRecs
                \/ /\ UNCHANGED faults
                   /\ calls' = Append(calls, Call("DeleteRecord", record.Zone, record, TRUE))
                   /\ results' = [results EXCEPT !.Deleted = Append(@, record)]
                   /\ zoneRecs' = ProviderDelete(zoneRecs, record.Zone, record)
          /\ ci' = ci + 1
          /\ pc' = "delete"
  /\ UNCHANGED <<cfg, store, runs, pre, loaded, currentState, changes, zi, plan, err,
                 last, domains, cancelledAt,
                 db, svc>>

\* an executePlan that persists whatever happened
ShouldPersistAlways(res) == TRUE

\* executePlan's test before SaveState
ShouldPersist(res) == Len(res.Failures) = 0

\* an executePlan that logs a SaveState error and returns nil
OnSaveStateErrorSwallowed == ""

\* what executePlan returns when SaveState fails: the wrapped error
OnSaveStateError == "save state"

\* executePlan, end: persist the new state only if no operation failed
Persist ==
  /\ pc = "persist"
  /\ pc' = "done"
  /\ IF ShouldPersist(results)
     THEN \/ /\ MayFail
             /\ faults' = faults + 1
             /\ calls' = Append(calls, Call("SaveState", <<>>, NoRecord, FALSE))
             /\ err' = OnSaveStateError
             /\ store' = SaveStateFailed(store, currentState)
             /\ db' \in BadgerSaveStateFailed(db, currentState)
          \/ /\ UNCHANGED <<faults, err>>
             /\ calls' = Append(calls, Call("SaveState", <<>>, NoRecord, TRUE))
             /\ store' = SaveState(store, currentState)
             /\ db' = BadgerSaveState(db, currentState)
     ELSE UNCHANGED <<faults, calls, err, store, db>>
  /\ UNCHANGED <<cfg, zoneRecs, runs, pre, loaded, currentState, changes, zi, plan, ci,
                 results, last, domains, cancelledAt,
                 svc>>

Next ==
  \/ Reconcile
  \/ PlanZone
  \/ ExecutePlan
  \/ CreateRecord
  \/ DeleteRecord
  \/ Persist

Spec == Init /\ [][Next]_vars

\* the same engine started over an empty store and empty zones
InitEmpty == Init /\ store = EmptyState /\ zoneRecs = NoRecords

SpecEmpty == InitEmpty /\ [][Next]_vars

\* the engine configured with the first zone only, so that HostP lies outside
\* every zone, and with HostA protected or not
InitOneZone ==
  /\ \E dryRun \in BOOLEAN, prot \in {{}, {HostA}}, owner \in Owners :
       cfg = NewEngine(dryRun, prot, owner, <<Zone1>>)
  /\ \E seed \in Seeds :
       /\ store = seed.store
       /\ zoneRecs = seed.recs
       /\ pre = [store |-> seed.store, recs |-> seed.recs]
  /\ pc = "idle"
  /\ runs = 0
  /\ faults = 0
  /\ loaded = FALSE
  /\ currentState = EmptyState
  /\ changes = EmptyChanges
  /\ zi = 1
  /\ plan = EmptyPlan
  /\ ci = 1
  /\ results = EmptyResults
  /\ err = ""
  /\ calls = <<>>
  /\ last = NoRun
  /\ domains = <<>>
  /\ cancelledAt = -1
  /\ db = BadgerSaveState(EmptyDb, store)
  /\ svc = NoService

SpecOneZone == InitOneZone /\ [][Next]_vars

(***************************************************************************)
(* The engine over one zone whose provider names records in any of its     *)
(* forms: zone-relative or fully qualified, the apex as "@" or as the zone *)
(***************************************************************************)
HostApex == Zone1

NamedHosts == {HostA, HostApex}

\* the names a provider may return for the records of host h of Zone1
ProviderNames(h) == IF h = HostApex THEN {<<"@">>, Zone1} ELSE {<<"a">>, HostA}

NamedUpstreams == {UpV4, UpName}

\* the zone contents: at most one address/alias record and at most one
\* ownership TXT record of host h, each under any of its names
NamedRecords(h, owner) ==
  LET mains == {{}} \cup {{Rec(n, getRecordType(extractHostFromUpstream(u)),
                               extractHostFromUpstream(u), Zone1)} :
                            n \in ProviderNames(h), u \in NamedUpstreams}
      txts == {{}} \cup {{Rec(n, "TXT", txtIdentifier(owner), Zone1)} :
                           n \in ProviderNames(h)}
  IN {m \cup t : m \in mains, t \in txts}

NamedLists ==
  {<<>>} \cup {<<[Host |-> h, Upstream |-> u]>> : h \in NamedHosts, u \in NamedUpstreams}

InitNames ==
  /\ \E dryRun \in BOOLEAN : cfg = NewEngine(dryRun, {}, OwnerO, <<Zone1>>)
  /\ \E h \in NamedHosts :
       \E st \in {EmptyState}
                   \cup {(h :> [ServerName |-> u, LastSeen |-> 0]) : u \in NamedUpstreams},
          recs \in NamedRecords(h, OwnerO) :
         /\ store = st
         /\ zoneRecs = (Zone1 :> recs) @@ (Zone2 :> {})
         /\ pre = [store |-> st, recs |-> (Zone1 :> recs) @@ (Zone2 :> {})]
  /\ pc = "idle"
  /\ runs = 0
  /\ faults = 0
  /\ loaded = FALSE
  /\ currentState = EmptyState
  /\ changes = EmptyChanges
  /\ zi = 1
  /\ plan = EmptyPlan
  /\ ci = 1
  /\ results = EmptyResults
  /\ err = ""
  /\ calls = <<>>
  /\ last = NoRun
  /\ domains = <<>>
  /\ cancelledAt = -1
  /\ db = BadgerSaveState(EmptyDb, store)
  /\ svc = NoService

ReconcileNames == ReconcileWith(NamedLists)

NextNames ==
  \/ ReconcileNames
  \/ PlanZone
  \/ ExecutePlan
  \/ CreateRecord
  \/ DeleteRecord
  \/ Persist

SpecNames == InitNames /\ [][NextNames]_vars

\* the caller cancels the context it passed to the running Reconcile call while
\* executePlan is in its create loop or its delete loop; executePlan hands ctx
\* to the provider and never reads ctx.Done or ctx.Err itself
Cancel ==
  /\ cancelledAt = -1
  /\ pc \in {"create", "delete"}
  /\ pc = "delete" => ci <= Len(plan.Delete)
  /\ cancelledAt' = Len(calls)
  /\ UNCHANGED <<cfg, store, zoneRecs, pc, runs, faults, pre, loaded, currentState,
                 changes, zi, plan, ci, results, err, calls, last, domains, db, svc>>

NextCancel == Next \/ Cancel

\* the engine started over an empty store and empty zones, with a caller that
\* may cancel a run
SpecCancel == InitEmpty /\ [][NextCancel]_vars

(***************************************************************************)
(* The engine configured with two zones in either order: two disjoint      *)
(* zones, or a zone and a zone below it, so that HostA belongs to both     *)
(***************************************************************************)
\* "a.e.c" as a zone of its own: HostA is its apex
ZoneSub == HostA

ZoneOrders == {<<Zone1, Zone2>>, <<Zone2, Zone1>>, <<Zone1, ZoneSub>>, <<ZoneSub, Zone1>>}

OrderNoRecords == (Zone1 :> {}) @@ (Zone2 :> {}) @@ (ZoneSub :> {})

\* owned records of HostA and HostP in every zone they belong to
OrderOwned ==
  (Zone1 :> {Rec(NameA, "A", SeedData, Zone1),
             Rec(NameA, "TXT", txtIdentifier(OwnerO), Zone1)})
    @@ (Zone2 :> {Rec(NameP, "A", SeedData, Zone2),
                  Rec(NameP, "TXT", txtIdentifier(OwnerO), Zone2)})
    @@ (ZoneSub :> {Rec(getRecordName(HostA, ZoneSub), "A", SeedData, ZoneSub),
                    Rec(getRecordName(HostA, ZoneSub), "TXT", txtIdentifier(OwnerO), ZoneSub)})

InitOrder ==
  /\ \E zones \in ZoneOrders : cfg = NewEngine(FALSE, {}, OwnerO, zones)
  /\ \E seed \in {[store |-> EmptyState, recs |-> OrderNoRecords],
                   [store |-> SeedState, recs |-> OrderOwned]} :
       /\ store = seed.store
       /\ zoneRecs = seed.recs
       /\ pre = [store |-> seed.store, recs |-> seed.recs]
  /\ pc = "idle"
  /\ runs = 0
  /\ faults = 0
  /\ loaded = FALSE
  /\ currentState = EmptyState
  /\ changes = EmptyChanges
  /\ zi = 1
  /\ plan = EmptyPlan
  /\ ci = 1
  /\ results = EmptyResults
  /\ err = ""
  /\ calls = <<>>
  /\ last = NoRun
  /\ domains = <<>>
  /\ cancelledAt = -1
  /\ db = BadgerSaveState(EmptyDb, store)
  /\ svc = NoService

SpecOrder == InitOrder /\ [][Next]_vars

(***************************************************************************)
(* The engine over hosts at every position relative to a zone: the apex,   *)
(* one and two labels below it, a host whose text merely ends with the     *)
(* zone, and a host of the other zone                                      *)
(***************************************************************************)
\* "a.b.e.c"
HostDeep == <<"a", ".", "b", ".", "e", ".", "c">>

\* "xe.c": ends with "e.c" but is not below it
HostNear == <<"x", "e", ".", "c">>

ZoneHosts == {HostApex, HostA, HostDeep, HostNear, HostP}

ZoneLists ==
  {<<>>, <<[Host |-> HostDeep, Upstream |-> UpV4], [Host |-> HostNear, Upstream |-> UpV4]>>}
    \cup {<<[Host |-> h, Upstream |-> UpV4]>> : h \in ZoneHosts}

\* the store names one host; the zones are empty or hold its owned records
InitZones ==
  /\ \E dryRun \in BOOLEAN : cfg = NewEngine(dryRun, {}, OwnerO, <<Zone1, Zone2>>)
  /\ \E h \in ZoneHosts :
       \E owned \in {{z \in {Zone1, Zone2} : belongsToZone(h, z)}, {}} :
         LET recs == [z \in {Zone1, Zone2} |->
                        IF z \in owned
                        THEN {Rec(getRecordName(h, z), "CNAME", UpName, z),
                              Rec(getRecordName(h, z), "TXT", txtIdentifier(OwnerO), z)}
                        ELSE {}]
             st == (h :> [ServerName |-> UpName, LastSeen |-> 0])
         IN /\ store = st
            /\ zoneRecs = recs
            /\ pre = [store |-> st, recs |-> recs]
  /\ pc = "idle"
  /\ runs = 0
  /\ faults = 0
  /\ loaded = FALSE
  /\ currentState = EmptyState
  /\ changes = EmptyChanges
  /\ zi = 1
  /\ plan = EmptyPlan
  /\ ci = 1
  /\ results = EmptyResults
  /\ err = ""
  /\ calls = <<>>
  /\ last = NoRun
  /\ domains = <<>>
  /\ cancelledAt = -1
  /\ db = BadgerSaveState(EmptyDb, store)
  /\ svc = NoService

ReconcileZones == ReconcileWith(ZoneLists)

NextZones ==
  \/ ReconcileZones
  \/ PlanZone
  \/ ExecutePlan
  \/ CreateRecord
  \/ DeleteRecord
  \/ Persist

SpecZones == InitZones /\ [][NextZones]_vars

(***************************************************************************)
(* The engine over upstreams of every form: a name or an IP literal, with  *)
(* or without a port, an IPv6 literal in brackets with or without a port   *)
(***************************************************************************)
\* "c:8"
UpNamePort == <<"c", ":", "8">>

\* "1.1.1.1"
UpV4Bare == <<"1", ".", "1", ".", "1", ".", "1">>

\* "[::1]"
UpV6Brackets == <<"[", ":", ":", "1", "]">>

\* "[::ffff:1.2.3.4]:8", an IPv4-mapped IPv6 literal with a port
UpMapped == <<"[", ":", ":", "f", "f", "f", "f", ":", "1", ".", "2", ".", "3", ".", "4", "]", ":", "8">>

UpstreamLists ==
  {<<>>}
    \cup {<<[Host |-> HostA, Upstream |-> u]>> :
            u \in {UpName, UpNamePort, UpV4, UpV4Bare, UpV6, UpV6Brackets, UpMapped}}

InitUpstreams ==
  /\ \E dryRun \in BOOLEAN : cfg = NewEngine(dryRun, {}, OwnerO, <<Zone1>>)
  /\ store = EmptyState
  /\ zoneRecs = NoRecords
  /\ pre = [store |-> EmptyState, recs |-> NoRecords]
  /\ pc = "idle"
  /\ runs = 0
  /\ faults = 0
  /\ loaded = FALSE
  /\ currentState = EmptyState
  /\ changes = EmptyChanges
  /\ zi = 1
  /\ plan = EmptyPlan
  /\ ci = 1
  /\ results = EmptyResults
  /\ err = ""
  /\ calls = <<>>
  /\ last = NoRun
  /\ domains = <<>>
  /\ cancelledAt = -1
  /\ db = BadgerSaveState(EmptyDb, store)
  /\ svc = NoService

ReconcileUpstreams == ReconcileWith(UpstreamLists)

NextUpstreams ==
  \/ ReconcileUpstreams
  \/ PlanZone
  \/ ExecutePlan
  \/ CreateRecord
  \/ DeleteRecord
  \/ Persist

SpecUpstreams == InitUpstreams /\ [][NextUpstreams]_vars

(***************************************************************************)
(* The Caddy source: Domains walks the routes of the served configuration  *)
(***************************************************************************)
\* a "*.e.c" site, as a Caddyfile wildcard site makes it
HostWild == <<"*", ".">> \o Zone1

\* caddy.Handler values
ReverseProxy(ups) == [Handler |-> "reverse_proxy", Upstreams |-> ups, Routes |-> <<>>]

Subroute(routes) == [Handler |-> "subroute", Upstreams |-> <<>>, Routes |-> routes]

\* caddy.Route with one host matcher of the given hosts, or with no matcher
RouteOf(hosts, handlers) ==
  [Match |-> IF hosts = <<>> THEN <<>> ELSE <<[Host |-> hosts]>>, Handle |-> handlers]

\* the loop over nestedRoute.Match: the first host of the last matcher that
\* has hosts replaces the current host
RECURSIVE HostContext(_, _)
HostContext(currentHost, matches) ==
  IF matches = <<>> THEN currentHost
  ELSE HostContext(IF Len(Head(matches).Host) > 0 THEN Head(matches).Host[1]
                   ELSE currentHost,
                   Tail(matches))

\* client.processHandlers, and its loop over the routes of a subroute, which
\* carries currentHost from one nested route to the next
RECURSIVE processHandlers(_, _)
RECURSIVE processNestedRoutes(_, _)
processHandlers(parentHost, handlers) ==
  IF handlers = <<>> THEN <<>>
  ELSE LET handler == Head(handlers)
           nested == IF handler.Handler = "subroute"
                     THEN processNestedRoutes(parentHost, handler.Routes)
                     ELSE <<>>
           own == IF handler.Handler = "reverse_proxy" /\ Len(handler.Upstreams) > 0
                  THEN <<[Host |-> parentHost, Upstream |-> handler.Upstreams[1]]>>
                  ELSE <<>>
       IN nested \o own \o processHandlers(parentHost, Tail(handlers))

processNestedRoutes(currentHost, routes) ==
  IF routes = <<>> THEN <<>>
  ELSE LET host == HostContext(currentHost, Head(routes).Match)
       IN processHandlers(host, Head(routes).Handle)
            \o processNestedRoutes(host, Tail(routes))

\* the loops of extractDomains over the hosts of a matcher, the matchers of a
\* route and the routes of a server
RECURSIVE extractHosts(_, _)
extractHosts(hosts, handlers) ==
  IF hosts = <<>> THEN <<>>
  ELSE processHandlers(Head(hosts), handlers) \o extractHosts(Tail(hosts), handlers)

RECURSIVE extractMatches(_, _)
extractMatches(matches, handlers) ==
  IF matches = <<>> THEN <<>>
  ELSE extractHosts(Head(matches).Host, handlers) \o extractMatches(Tail(matches), handlers)

\* client.extractDomains for a configuration with one server
RECURSIVE extractDomains(_)
extractDomains(routes) ==
  IF routes = <<>> THEN <<>>
  ELSE extractMatches(Head(routes).Match, Head(routes).Handle)
         \o extractDomains(Tail(routes))

\* served configurations: a plain site; the nested site of the client's test;
\* a wildcard site with a host-matched handle block and a fallback block, in
\* either order; a subroute followed by a proxy of its own; a site that
\* proxies nowhere; two sites
SourceConfigs ==
  {<<>>,
   <<RouteOf(<<HostA>>, <<ReverseProxy(<<UpV4>>)>>)>>,
   <<RouteOf(<<HostWild>>,
             <<Subroute(<<RouteOf(<<HostA>>,
                                  <<Subroute(<<RouteOf(<<>>,
                                                       <<ReverseProxy(<<UpV4, UpName>>)>>)>>)>>)>>)>>)>>,
   <<RouteOf(<<HostWild>>,
             <<Subroute(<<RouteOf(<<HostA>>, <<ReverseProxy(<<UpV4>>)>>),
                          RouteOf(<<>>, <<ReverseProxy(<<UpName>>)>>)>>)>>)>>,
   <<RouteOf(<<HostWild>>,
             <<Subroute(<<RouteOf(<<>>, <<ReverseProxy(<<UpName>>)>>),
                          RouteOf(<<HostA>>, <<ReverseProxy(<<UpV4>>)>>)>>)>>)>>,
   <<RouteOf(<<HostP>>,
             <<Subroute(<<RouteOf(<<HostA>>, <<ReverseProxy(<<UpV4>>)>>)>>),
               ReverseProxy(<<UpName>>)>>)>>,
   <<RouteOf(<<HostA>>,
             <<[Handler |-> "file_server", Upstreams |-> <<>>, Routes |-> <<>>],
               ReverseProxy(<<>>)>>)>>,
   <<RouteOf(<<HostA>>, <<ReverseProxy(<<UpName>>)>>),
     RouteOf(<<HostP>>, <<ReverseProxy(<<UpV4>>)>>)>>}

\* the engine behind a source: svc.config is the configuration the last
\* Domains call was served
InitSource ==
  /\ cfg = NewEngine(FALSE, {}, OwnerO, <<Zone1, Zone2>>)
  /\ store = EmptyState
  /\ zoneRecs = NoRecords
  /\ pre = [store |-> EmptyState, recs |-> NoRecords]
  /\ pc = "idle"
  /\ runs = 0
  /\ faults = 0
  /\ loaded = FALSE
  /\ currentState = EmptyState
  /\ changes = EmptyChanges
  /\ zi = 1
  /\ plan = EmptyPlan
  /\ ci = 1
  /\ results = EmptyResults
  /\ err = ""
  /\ calls = <<>>
  /\ last = NoRun
  /\ domains = <<>>
  /\ cancelledAt = -1
  /\ db = EmptyDb
  /\ svc = [config |-> <<>>]

\* performSync with Domains succeeding: Reconcile is called with what
\* extractDomains makes of the served configuration
ReconcileSource ==
  \E config \in SourceConfigs :
    /\ ReconcileCall({extractDomains(config)})
    /\ svc' = [config |-> config]

NextSource ==
  \/ ReconcileSource
  \/ PlanZone
  \/ ExecutePlan
  \/ CreateRecord
  \/ DeleteRecord
  \/ Persist

SpecSource == InitSource /\ [][NextSource]_vars

(***************************************************************************)
(* config.Load, the dry-run setting: the YAML file, then the environment   *)
(***************************************************************************)
\* strings.ToLower on the letters the model uses
ToLower(t) ==
  [i \in 1..Len(t) |->
     CASE t[i] = "T" -> "t" [] t[i] = "R" -> "r" [] t[i] = "U" -> "u" [] t[i] = "E" -> "e"
       [] t[i] = "F" -> "f" [] t[i] = "A" -> "a" [] t[i] = "L" -> "l" [] t[i] = "S" -> "s"
       [] OTHER -> t[i]]

\* what the config file says about reconcile.dryRun: nothing (no file, or a
\* file without the key), true or false
FileDryRun == {"absent", "true", "false"}

\* values of CADDY_DNS_SYNC_DRYRUN: unset, "true", "false", "TRUE", "x"
EnvDryRun == {<<>>, <<"t", "r", "u", "e">>, <<"f", "a", "l", "s", "e">>, <<"T", "R", "U", "E">>, <<"x">>}

\* cfg.Reconcile.DryRun as Load returns it: the zero value of the struct,
\* overwritten by the file's value, overwritten by the environment's value
\* when that is "true" or "false" in any letter case
LoadDryRun(file, env) ==
  LET decoded == IF file = "true" THEN TRUE ELSE FALSE
  IN IF env = <<>> THEN decoded
     ELSE IF ToLower(env) = <<"t", "r", "u", "e">> THEN TRUE
     ELSE IF ToLower(env) = <<"f", "a", "l", "s", "e">> THEN FALSE
     ELSE decoded

\* the engine built from the configuration Load returns when neither the file
\* nor the environment says anything about dry-run
InitDefault ==
  /\ cfg = NewEngine(LoadDryRun("absent", <<>>), {}, OwnerO, <<Zone1, Zone2>>)
  /\ store = EmptyState
  /\ zoneRecs = NoRecords
  /\ pre = [store |-> EmptyState, recs |-> NoRecords]
  /\ pc = "idle"
  /\ runs = 0
  /\ faults = 0
  /\ loaded = FALSE
  /\ currentState = EmptyState
  /\ changes = EmptyChanges
  /\ zi = 1
  /\ plan = EmptyPlan
  /\ ci = 1
  /\ results = EmptyResults
  /\ err = ""
  /\ calls = <<>>
  /\ last = NoRun
  /\ domains = <<>>
  /\ cancelledAt = -1
  /\ db = EmptyDb
  /\ svc = NoService

SpecDefault == InitDefault /\ [][Next]_vars

(***************************************************************************)
(* The service: main starts one goroutine running runSyncLoop, which calls *)
(* performSync and then waits for the ticker or for the shutdown           *)
(***************************************************************************)
\* a loop that starts performSync in a goroutine of its own and goes on to
\* the select at once
AfterStartSyncAsync == "select"

\* where runSyncLoop is once performSync has called Reconcile: inside the
\* call, until it returns
AfterStartSync == "sync"

InitLoop ==
  /\ cfg = NewEngine(FALSE, {}, OwnerO, <<Zone1, Zone2>>)
  /\ store = EmptyState
  /\ zoneRecs = NoRecords
  /\ pre = [store |-> EmptyState, recs |-> NoRecords]
  /\ pc = "idle"
  /\ runs = 0
  /\ faults = 0
  /\ loaded = FALSE
  /\ currentState = EmptyState
  /\ changes = EmptyChanges
  /\ zi = 1
  /\ plan = EmptyPlan
  /\ ci = 1
  /\ results = EmptyResults
  /\ err = ""
  /\ calls = <<>>
  /\ last = NoRun
  /\ domains = <<>>
  /\ cancelledAt = -1
  /\ db = EmptyDb
  /\ svc = [loop |-> "begin", tick |-> FALSE, inFlight |-> 0, cancelled |-> FALSE,
            main |-> "serving", sourceErr |-> FALSE]

\* a performSync that goes on with the empty list Domains returned beside its
\* error
OnDomainsErrorReconcile == "reconcile"

\* what performSync does when client.Domains returns an error: return it
OnDomainsError == "return"

\* performSync: client.Domains, then Reconcile with the list it returned, one
\* of the given lists
PerformSyncWith(lists) ==
  /\ svc.loop = "begin"
  /\ \/ \* client.Domains returns no domains and an error
        IF OnDomainsError = "return"
        THEN /\ svc' = [svc EXCEPT !.loop = "select", !.sourceErr = TRUE]
             /\ UNCHANGED <<cfg, store, zoneRecs, pc, runs, faults, pre, loaded,
                            currentState, changes, zi, plan, ci, results, err, calls,
                            last, domains, cancelledAt, db>>
        ELSE /\ ReconcileCall({<<>>})
             /\ svc' = [svc EXCEPT !.loop = AfterStartSync, !.inFlight = @ + 1,
                                   !.sourceErr = TRUE]
     \/ /\ ReconcileCall(lists)
        /\ svc' = [svc EXCEPT !.loop = AfterStartSync, !.inFlight = @ + 1,
                              !.sourceErr = FALSE]

PerformSync == PerformSyncWith(DesiredLists)

\* Reconcile has returned: performSync logs the outcome and returns, and the
\* loop reaches its select
ReturnFromSync ==
  /\ svc.inFlight > 0
  /\ pc = "done"
  /\ svc' = [svc EXCEPT !.loop = IF @ = "sync" THEN "select" ELSE @, !.inFlight = @ - 1]
  /\ UNCHANGED <<cfg, store, zoneRecs, pc, runs, faults, pre, loaded, currentState,
                 changes, zi, plan, ci, results, err, calls, last, domains,
                 cancelledAt, db>>

\* the ticker fires: its channel holds one tick, a tick is dropped when the
\* channel is full
Tick ==
  /\ svc.loop # "stopped"
  /\ ~svc.tick
  /\ svc' = [svc EXCEPT !.tick = TRUE]
  /\ UNCHANGED <<cfg, store, zoneRecs, pc, runs, faults, pre, loaded, currentState,
                 changes, zi, plan, ci, results, err, calls, last, domains,
                 cancelledAt, db>>

\* the select receives from ticker.C: continue with the next performSync
TakeTick ==
  /\ svc.loop = "select"
  /\ svc.tick
  /\ svc' = [svc EXCEPT !.loop = "begin", !.tick = FALSE]
  /\ UNCHANGED <<cfg, store, zoneRecs, pc, runs, faults, pre, loaded, currentState,
                 changes, zi, plan, ci, results, err, calls, last, domains,
                 cancelledAt, db>>

\* the select receives from ctx.Done: the loop returns, its deferred calls
\* stop the ticker and signal the wait group
StopLoop ==
  /\ svc.loop = "select"
  /\ svc.cancelled
  /\ svc' = [svc EXCEPT !.loop = "stopped"]
  /\ UNCHANGED <<cfg, store, zoneRecs, pc, runs, faults, pre, loaded, currentState,
                 changes, zi, plan, ci, results, err, calls, last, domains,
                 cancelledAt, db>>

\* main receives the shutdown signal: it cancels the context, shuts the
\* metrics server down and goes on to wg.Wait
Shutdown ==
  /\ svc.main = "serving"
  /\ svc' = [svc EXCEPT !.cancelled = TRUE, !.main = "waiting"]
  /\ UNCHANGED <<cfg, store, zoneRecs, pc, runs, faults, pre, loaded, currentState,
                 changes, zi, plan, ci, results, err, calls, last, domains,
                 cancelledAt, db>>

\* a main that returns without waiting for the sync loop
WaitReturnsAtOnce(s) == TRUE

\* when main's wg.Wait returns: once runSyncLoop has called wg.Done
WaitReturns(s) == s.loop = "stopped"

\* wg.Wait returns, main returns and its deferred stateManager.Close runs
MainExit ==
  /\ svc.main = "waiting"
  /\ WaitReturns(svc)
  /\ svc' = [svc EXCEPT !.main = "exited"]
  /\ UNCHANGED <<cfg, store, zoneRecs, pc, runs, faults, pre, loaded, currentState,
                 changes, zi, plan, ci, results, err, calls, last, domains,
                 cancelledAt, db>>

NextLoop ==
  \/ PerformSync
  \/ ReturnFromSync
  \/ Tick
  \/ TakeTick
  \/ StopLoop
  \/ Shutdown
  \/ MainExit
  \/ PlanZone
  \/ ExecutePlan
  \/ CreateRecord
  \/ DeleteRecord
  \/ Persist

SpecLoop == InitLoop /\ [][NextLoop]_vars

\* the GetRecords call of generatePlan returns, with the records or an error:
\* the steps of PlanZone, told by the call they record
GetRecordsReturns ==
  /\ pc = "plan"
  /\ \E ok \in BOOLEAN :
       calls' = Append(calls, Call("GetRecords", cfg.zones[zi], NoRecord, ok))

\* Reconcile invoked again and again with the list of its first call, the
\* provider and the store failing MaxFaults times at most; the time of a call
\* goes to lastSeen only, which nothing reads, and stands still at MaxRuns
ReconcileFixed ==
  /\ ReconcileCallAt(IF pc = "idle" THEN DesiredLists ELSE {domains},
                     IF runs < MaxRuns THEN runs + 1 ELSE runs)
  /\ UNCHANGED svc

NextConverge ==
  \/ ReconcileFixed
  \/ PlanZone
  \/ ExecutePlan
  \/ CreateRecord
  \/ DeleteRecord
  \/ Persist

SpecConverge ==
  /\ Init
  /\ [][NextConverge]_vars
  /\ WF_vars(ReconcileFixed)
  /\ WF_calls(GetRecordsReturns)
  /\ WF_vars(ExecutePlan)
  /\ WF_vars(CreateRecord)
  /\ WF_vars(DeleteRecord)
  /\ WF_vars(Persist)

\* the service with a source that returns one of two lists, every step of a
\* sync returning, and a select that does not pass the cancellation by for ever
PerformSyncFew == PerformSyncWith({<<>>, <<[Host |-> HostA, Upstream |-> UpV4]>>})

NextShutdown ==
  \/ PerformSyncFew
  \/ ReturnFromSync
  \/ Tick
  \/ TakeTick
  \/ StopLoop
  \/ Shutdown
  \/ MainExit
  \/ PlanZone
  \/ ExecutePlan
  \/ CreateRecord
  \/ DeleteRecord
  \/ Persist

SpecShutdown ==
  /\ InitLoop
  /\ [][NextShutdown]_vars
  /\ WF_vars(PerformSyncFew)
  /\ WF_calls(GetRecordsReturns)
  /\ WF_vars(ExecutePlan)
  /\ WF_vars(CreateRecord)
  /\ WF_vars(DeleteRecord)
  /\ WF_vars(Persist)
  /\ WF_vars(ReturnFromSync)
  /\ SF_vars(StopLoop)
  /\ WF_vars(MainExit)

(***************************************************************************)
(* Vocabulary of the properties                                            *)
(***************************************************************************)
CallsOf(ops) == SelectSeq(calls, LAMBDA c : c.op \in ops)

MutationCalls == CallsOf({"CreateRecord", "DeleteRecord"})

RecordsOf(cs) == [i \in 1..Len(cs) |-> cs[i].rec]

\* two states name the same hosts with the same upstreams
SameDesired(a, b) ==
  /\ DOMAIN a = DOMAIN b
  /\ \A h \in DOMAIN a : a[h].ServerName = b[h].ServerName

IsAddress(r) == r.Type \in {"A", "AAAA", "CNAME"}

RelName(r) == getRecordName(r.Name, r.Zone)

\* the zone, as fetched in this run, holds a TXT record for r's name that the
\* partition step accepts as owned
HasOwnedTXT(r) ==
  \E t \in pre.recs[r.Zone] : RelName(t) = RelName(r) /\ IsManagedTXT(cfg, t)

\* the owner a TXT record names: the text after "caddy-dns-sync/owner="
TxtOwner(data) == Cut(data, OwnerKey).after

\* the zone, as fetched in this run, holds a TXT record for r's name with the
\* heritage marker and exactly the configured owner
HasExactOwnerTXT(r) ==
  \E t \in pre.recs[r.Zone] :
    /\ t.Type = "TXT"
    /\ RelName(t) = RelName(r)
    /\ Contains(t.Data, Heritage)
    /\ Contains(t.Data, OwnerKey)
    /\ TxtOwner(t.Data) = cfg.owner

\* a run that reached executePlan's loops and returned
Executed ==
  pc = "done" /\ loaded /\ ~cfg.dryRun /\ ~IsEmpty(changes) /\ err # "generate plan"

(***************************************************************************)
(* C1: in a non-dry run, once an operation has failed, SaveState is not    *)
(* called and the store keeps the content it had when the run started.     *)
(***************************************************************************)
C1_AllOrNothing ==
  (~cfg.dryRun /\ results.Failures # <<>>)
    => (CallsOf({"SaveState"}) = <<>> /\ store = pre.store)

C1_Witness ==
  /\ pc = "done"
  /\ ~cfg.dryRun
  /\ results.Failures # <<>>
  /\ results.Created # <<>>
  /\ ~SameDesired(currentState, pre.store)
  /\ store = pre.store

(***************************************************************************)
(* C2: an address/alias record is planned for deletion only if the zone it *)
(* was fetched from holds an owned TXT record of the same name.            *)
(***************************************************************************)
C2_DeleteOnlyOwned ==
  \A i \in 1..Len(plan.Delete) :
    IsAddress(plan.Delete[i]) => HasOwnedTXT(plan.Delete[i])

(***************************************************************************)
(* C3: on the removal path a delete is planned for a name only if the zone *)
(* holds a TXT record of that name with the heritage marker whose owner is *)
(* exactly the configured owner.                                           *)
(***************************************************************************)
C3_RemovalOwnerExact ==
  changes.Added = <<>>
    => \A i \in 1..Len(plan.Delete) : HasExactOwnerTXT(plan.Delete[i])

(***************************************************************************)
(* C4: no record of a protected host is planned for creation or deletion.  *)
(***************************************************************************)
C4_ProtectedUntouched ==
  \A h \in cfg.protected :
    \A r \in Range(plan.Create) \cup Range(plan.Delete) :
      ~(belongsToZone(h, r.Zone) /\ RelName(r) = getRecordName(h, r.Zone))

(***************************************************************************)
(* C5: a run that follows a run with the same desired list creates and     *)
(* deletes nothing.  As claimed (after any previous run that returned, dry *)
(* or not, with or without failed operations), and as amended (after a     *)
(* non-dry previous run that returned no error and no failure).            *)
(***************************************************************************)
NoMutation ==
  results.Created = <<>> /\ results.Deleted = <<>> /\ MutationCalls = <<>>

\* C5 as claimed: after any previous run that returned a nil error, a run with
\* the same desired list creates and deletes nothing
C5_IdempotentAlways ==
  (last.ran /\ last.nilErr /\ SameDesired(currentState, last.desired)) => NoMutation

\* C5 as amended: after a non-dry previous run with a nil error and no failure,
\* a run with the same desired list creates and deletes nothing
C5_IdempotentAfterCleanRun ==
  (last.ran /\ last.clean /\ SameDesired(currentState, last.desired)) => NoMutation

C5_Witness ==
  /\ pc = "done"
  /\ last.ran
  /\ last.clean
  /\ SameDesired(currentState, last.desired)
  /\ \E h \in DOMAIN store :
       /\ store[h].LastSeen = runs - 1
       /\ store[h].LastSeen > 0
       /\ h \notin cfg.protected
       /\ zoneRecs[cfg.zones[1]] \cup zoneRecs[cfg.zones[2]] # {}

(***************************************************************************)
(* C6: in a plan, address/alias records and TXT records come in pairs: for *)
(* each zone and name, one is created iff the other is, and one is deleted *)
(* iff the other is.  Stated for an engine started over an empty store and *)
(* empty zones (SpecEmpty) while no collaborator call has failed, so that  *)
(* every record in the zones is one the engine created as part of a pair.  *)
(***************************************************************************)
Paired(recs) ==
  \A r \in Range(recs) :
    /\ IsAddress(r) \/ r.Type = "TXT"
    /\ \E q \in Range(recs) :
         /\ q.Zone = r.Zone
         /\ RelName(q) = RelName(r)
         /\ IF IsAddress(r) THEN q.Type = "TXT" ELSE IsAddress(q)

\* C6: plan.Create and plan.Delete hold address/alias and TXT records in pairs
C6_Pairing == faults = 0 => (Paired(plan.Create) /\ Paired(plan.Delete))

(***************************************************************************)
(* C7: started over an empty store and empty zones (SpecEmpty), between    *)
(* runs every persisted, non-protected host of a configured zone has in    *)
(* that zone the address/alias record derived from its persisted upstream  *)
(* and an owned TXT record of the same name.  Stated while no collaborator *)
(* call has failed.                                                        *)
(***************************************************************************)
Converged(h, zone) ==
  LET name == getRecordName(h, zone)
      data == extractHostFromUpstream(store[h].ServerName)
  IN /\ Rec(name, getRecordType(data), data, zone) \in zoneRecs[zone]
     /\ \E t \in zoneRecs[zone] : RelName(t) = name /\ IsManagedTXT(cfg, t)

\* C7: between runs every persisted host of a zone has its address/alias record
\* and an owned TXT record in that zone
C7_PersistedConverged ==
  (faults = 0 /\ pc \in {"idle", "done"})
    => \A h \in DOMAIN store :
         \A k \in 1..Len(cfg.zones) :
           (h \notin cfg.protected /\ belongsToZone(h, cfg.zones[k]))
             => Converged(h, cfg.zones[k])

(***************************************************************************)
(* C8: when the desired list names exactly the hosts of the prior state    *)
(* with the same upstreams, the run makes no provider call and no          *)
(* SaveState call and returns empty Results and a nil error.               *)
(***************************************************************************)
C8_ShortCircuit ==
  (loaded /\ SameDesired(currentState, pre.store))
    => /\ pc = "done"
       /\ calls = <<Call("LoadState", <<>>, NoRecord, TRUE)>>
       /\ results = EmptyResults
       /\ err = ""
       /\ store = pre.store
       /\ zoneRecs = pre.recs

C8_Witness ==
  /\ pc = "done"
  /\ loaded
  /\ SameDesired(currentState, pre.store)
  /\ DOMAIN currentState # {}
  /\ \E z \in DOMAIN zoneRecs : zoneRecs[z] # {}

(***************************************************************************)
(* C9: when LoadState fails, or GetRecords fails for any zone, the run     *)
(* returns an error and empty Results and has made no CreateRecord,        *)
(* DeleteRecord or SaveState call.                                         *)
(***************************************************************************)
FatalHappened ==
  \/ CallsOf({"LoadState"}) # <<>> /\ ~loaded
  \/ \E i \in 1..Len(calls) : calls[i].op = "GetRecords" /\ ~calls[i].ok

\* C9: a failed LoadState or GetRecords ends the run with an error, empty
\* Results and no mutation
C9_FatalAbort ==
  FatalHappened
    => /\ pc = "done"
       /\ err # ""
       /\ results = EmptyResults
       /\ CallsOf({"CreateRecord", "DeleteRecord", "SaveState"}) = <<>>
       /\ store = pre.store
       /\ zoneRecs = pre.recs

C9_Witness ==
  /\ pc = "done"
  /\ Len(calls) = 3
  /\ calls[2] = Call("GetRecords", cfg.zones[1], NoRecord, TRUE)
  /\ calls[3] = Call("GetRecords", cfg.zones[2], NoRecord, FALSE)
  /\ plan.Create # <<>>
  /\ err = "generate plan"

(***************************************************************************)
(* C10: in a non-dry run every record of plan.Create and then every record *)
(* of plan.Delete is passed to the provider exactly once, in order,        *)
(* whatever failed before, and ends in exactly one of Created, Deleted and *)
(* Failures, with the matching Op.                                         *)
(***************************************************************************)
ExpectedOps ==
  [i \in 1..(Len(plan.Create) + Len(plan.Delete)) |->
     IF i <= Len(plan.Create)
     THEN [op |-> "CreateRecord", rec |-> plan.Create[i]]
     ELSE [op |-> "DeleteRecord", rec |-> plan.Delete[i - Len(plan.Create)]]]

FailureOf(c) ==
  [Record |-> c.rec,
   Op |-> IF c.op = "CreateRecord" THEN "create" ELSE "delete",
   Error |-> "error"]

\* C10: the mutation calls are plan.Create then plan.Delete, each once, and the
\* result lists partition them
C10_EveryOperationAttempted ==
  Executed
    => /\ Len(MutationCalls) = Len(ExpectedOps)
       /\ \A i \in 1..Len(MutationCalls) :
            /\ MutationCalls[i].op = ExpectedOps[i].op
            /\ MutationCalls[i].rec = ExpectedOps[i].rec
            /\ MutationCalls[i].zone = ExpectedOps[i].rec.Zone
       /\ results.Created
            = RecordsOf(SelectSeq(MutationCalls, LAMBDA c : c.op = "CreateRecord" /\ c.ok))
       /\ results.Deleted
            = RecordsOf(SelectSeq(MutationCalls, LAMBDA c : c.op = "DeleteRecord" /\ c.ok))
       /\ results.Failures
            = [i \in 1..Len(SelectSeq(MutationCalls, LAMBDA c : ~c.ok)) |->
                 FailureOf(SelectSeq(MutationCalls, LAMBDA c : ~c.ok)[i])]

C10_Witness ==
  /\ Executed
  /\ Len(plan.Create) >= 2
  /\ Len(plan.Delete) >= 2
  /\ ~MutationCalls[1].ok
  /\ MutationCalls[2].ok
  /\ ~MutationCalls[Len(plan.Create) + 1].ok
  /\ MutationCalls[Len(plan.Create) + 2].ok

(***************************************************************************)
(* C11: Reconcile returns a non-nil error exactly when LoadState,          *)
(* GetRecords or SaveState failed; a run in which create or delete         *)
(* operations failed returns a nil error and a non-empty Failures.         *)
(***************************************************************************)
FatalCallFailed ==
  \E i \in 1..Len(calls) :
    calls[i].op \in {"LoadState", "GetRecords", "SaveState"} /\ ~calls[i].ok

\* C11: the returned error is non-nil iff a fatal call failed, and it is nil
\* whenever Failures is non-empty
C11_ErrorOnlyWhenFatal ==
  pc = "done"
    => /\ (err # "") <=> FatalCallFailed
       /\ results.Failures # <<>> => (err = "" /\ ~FatalCallFailed)

C11_Witness ==
  /\ pc = "done"
  /\ err = ""
  /\ Len(results.Failures) = 2
  /\ results.Created # <<>>
  /\ results.Deleted # <<>>

(***************************************************************************)
(* C12: an engine constructed with dryRun = true never calls CreateRecord, *)
(* DeleteRecord or SaveState and leaves the store and the zones as they    *)
(* are; a run that reaches executePlan returns the plan's Create and       *)
(* Delete lists as Created and Deleted, with no Failures.                  *)
(***************************************************************************)
C12_DryRun ==
  cfg.dryRun
    => /\ CallsOf({"CreateRecord", "DeleteRecord", "SaveState"}) = <<>>
       /\ results.Failures = <<>>
       /\ store = pre.store
       /\ zoneRecs = pre.recs
       /\ (pc = "done" /\ loaded /\ err = "" /\ ~IsEmpty(changes))
            => (results.Created = plan.Create /\ results.Deleted = plan.Delete)

C12_Witness ==
  /\ cfg.dryRun
  /\ pc = "done"
  /\ runs = 2
  /\ Len(plan.Create) >= 2
  /\ Len(plan.Delete) >= 2
  /\ results.Created = plan.Create
  /\ results.Deleted = plan.Delete

(***************************************************************************)
(* C13: once the caller's context is cancelled during the create loop or   *)
(* the delete loop, the engine makes no further provider call and no       *)
(* SaveState call, and the run returns a non-nil error (SpecCancel).       *)
(***************************************************************************)
C13_CancellationStops ==
  cancelledAt >= 0
    => /\ Len(calls) = cancelledAt
       /\ pc = "done" => err # ""

(***************************************************************************)
(* C14: after a run that ended with a non-empty Failures, the next run     *)
(* with the same desired list computes the same added and removed sets as  *)
(* the failed run, and every name whose operation failed belongs to a host *)
(* of these sets.                                                          *)
(***************************************************************************)
AddedHosts == {d.Host : d \in Range(changes.Added)}

\* zn = <<zone, zone-relative name>> of a failed operation
InDeltas(zn) ==
  \E h \in AddedHosts \cup Range(changes.Removed) :
    belongsToZone(h, zn[1]) /\ getRecordName(h, zn[1]) = zn[2]

Stamp(st, t) ==
  [h \in DOMAIN st |-> [ServerName |-> st[h].ServerName, LastSeen |-> t]]

\* C15: the diff of the run, computed from currentState and the loaded state
C15_DiffCorrect ==
  (loaded /\ pc # "idle")
    => LET current == currentState
           previous == pre.store
           added == Range(changes.Added)
           removed == Range(changes.Removed)
       IN /\ AddedHosts
               = {h \in DOMAIN current :
                    h \notin DOMAIN previous
                      \/ previous[h].ServerName # current[h].ServerName}
          /\ \A d \in added : d.Upstream = current[d.Host].ServerName
          /\ Len(changes.Added) = Cardinality(AddedHosts)
          /\ removed = (DOMAIN previous) \ (DOMAIN current)
          /\ Len(changes.Removed) = Cardinality(removed)
          /\ AddedHosts \cap removed = {}
          /\ \A h \in (DOMAIN current) \cap (DOMAIN previous) : h \notin removed
          /\ \A t1, t2 \in 0..MaxRuns :
               compareStates(Stamp(current, t1), Stamp(previous, t2))
                 = [Added |-> added, Removed |-> removed]
          /\ current = BuildState(domains, runs)
          /\ pc = "plan" => store = previous

C15_Witness ==
  /\ loaded
  /\ pc = "plan"
  /\ \E h \in AddedHosts :
       /\ h \in DOMAIN pre.store
       /\ pre.store[h].ServerName # currentState[h].ServerName
  /\ Range(changes.Removed) # {}
  /\ \E h \in DOMAIN pre.store : pre.store[h].LastSeen > 0

(***************************************************************************)
(* C16: when the upstream of a host changed and its zone holds an          *)
(* address/alias record (A, AAAA or CNAME) with other data and an owned    *)
(* TXT record for its name, the plan deletes an existing address/alias     *)
(* record and an existing owned TXT record and creates the derived         *)
(* address/alias record and the ownership TXT record; UpdateRecord is      *)
(* never called; after a run without failure the zone holds the derived    *)
(* address/alias record and an owned TXT record of that name.              *)
(***************************************************************************)
\* the address/alias records of h's name the zone held when the run started
ExistingAddress(h, zone) ==
  {r \in pre.recs[zone] : IsAddress(r) /\ RelName(r) = getRecordName(h, zone)}

\* the owned TXT records of h's name the zone held when the run started
ExistingOwnedTXT(h, zone) ==
  {t \in pre.recs[zone] : IsManagedTXT(cfg, t) /\ RelName(t) = getRecordName(h, zone)}

\* the address/alias record derived from the desired upstream of h
DesiredAddress(h, zone) ==
  LET host == extractHostFromUpstream(currentState[h].ServerName)
  IN Rec(getRecordName(h, zone), getRecordType(host), host, zone)

DesiredTXT(h, zone) == Rec(getRecordName(h, zone), "TXT", txtIdentifier(cfg.owner), zone)

\* generatePlan has returned a plan that covers the k-th zone
Planned(k) ==
  /\ loaded
  /\ pc \in {"plan", "execute", "create", "delete", "persist", "done"}
  /\ err # "generate plan"
  /\ ~IsEmpty(changes)
  /\ (pc = "plan" => zi > k)

\* the run went through executePlan's loops and returned without a failure
FailureFree == Executed /\ results.Failures = <<>> /\ err = ""

\* C16: a changed host's existing pair is deleted and the new pair created
C16_ModifyReplacesPair ==
  \A k \in 1..Len(cfg.zones) :
    \A h \in AddedHosts :
      LET zone == cfg.zones[k]
      IN (/\ Planned(k)
          /\ h \in DOMAIN pre.store
          /\ h \notin cfg.protected
          /\ belongsToZone(h, zone)
          /\ ExistingAddress(h, zone) # {}
          /\ ExistingOwnedTXT(h, zone) # {}
          /\ \A r \in ExistingAddress(h, zone) : r.Data # DesiredAddress(h, zone).Data)
           => /\ ExistingAddress(h, zone) \cap Range(plan.Delete) # {}
              /\ ExistingOwnedTXT(h, zone) \cap Range(plan.Delete) # {}
              /\ DesiredAddress(h, zone) \in Range(plan.Create)
              /\ DesiredTXT(h, zone) \in Range(plan.Create)
              /\ \A i \in 1..Len(calls) : calls[i].op # "UpdateRecord"
              /\ FailureFree
                   => /\ DesiredAddress(h, zone) \in zoneRecs[zone]
                      /\ \E t \in zoneRecs[zone] :
                           IsManagedTXT(cfg, t) /\ RelName(t) = getRecordName(h, zone)

(***************************************************************************)
(* C17: for an added host whose zone holds exactly one address/alias       *)
(* record (A, AAAA or CNAME) and exactly one owned TXT record for its      *)
(* name, with the desired data, the plan has no create and no delete for   *)
(* that name.                                                              *)
(***************************************************************************)
PlanEntries(h, zone) ==
  {r \in Range(plan.Create) \cup Range(plan.Delete) :
     r.Zone = zone /\ RelName(r) = getRecordName(h, zone)}

\* C17: an already converged name gets no plan entry
C17_ConvergedNoOp ==
  \A k \in 1..Len(cfg.zones) :
    \A h \in AddedHosts :
      LET zone == cfg.zones[k]
      IN (/\ Planned(k)
          /\ h \notin cfg.protected
          /\ belongsToZone(h, zone)
          /\ Cardinality(ExistingAddress(h, zone)) = 1
          /\ Cardinality(ExistingOwnedTXT(h, zone)) = 1
          /\ \A r \in ExistingAddress(h, zone) : r.Data = DesiredAddress(h, zone).Data
          /\ \A t \in ExistingOwnedTXT(h, zone) : t.Data = txtIdentifier(cfg.owner))
           => PlanEntries(h, zone) = {}

(***************************************************************************)
(* C18: for a removed, non-protected host whose zone holds exactly one     *)
(* address/alias record (A, AAAA or CNAME) and an owned TXT record for its *)
(* name, plan.Delete contains both, and after a run without failure the    *)
(* zone holds neither.                                                     *)
(***************************************************************************)
C18_RemovalDeletesPair ==
  \A k \in 1..Len(cfg.zones) :
    \A h \in Range(changes.Removed) :
      LET zone == cfg.zones[k]
      IN (/\ Planned(k)
          /\ h \notin cfg.protected
          /\ belongsToZone(h, zone)
          /\ Cardinality(ExistingAddress(h, zone)) = 1
          /\ Cardinality(ExistingOwnedTXT(h, zone)) = 1)
           => /\ ExistingAddress(h, zone) \subseteq Range(plan.Delete)
              /\ ExistingOwnedTXT(h, zone) \subseteq Range(plan.Delete)
              /\ FailureFree
                   => /\ ExistingAddress(h, zone) \cap zoneRecs[zone] = {}
                      /\ ExistingOwnedTXT(h, zone) \cap zoneRecs[zone] = {}

(***************************************************************************)
(* C19: whatever name the provider returns for a record (zone-relative or  *)
(* fully qualified, "@" or the zone name for the apex), the record is      *)
(* filed and looked up under the zone-relative name of its host, so that   *)
(* for a removed host, and for a host whose derived data changed, whose    *)
(* zone holds an A/CNAME record and an owned TXT record, both are planned  *)
(* for deletion (SpecNames).                                               *)
(***************************************************************************)
NamedMains(h) ==
  {r \in pre.recs[Zone1] : IsMainRecord(r) /\ r.Name \in ProviderNames(h)}

NamedTXTs(h) ==
  {t \in pre.recs[Zone1] : IsManagedTXT(cfg, t) /\ t.Name \in ProviderNames(h)}

FailedMutations == SelectSeq(MutationCalls, LAMBDA c : ~c.ok)

\* C20: the full snapshot of the desired list is saved, skipped hosts included
C20_SnapshotPersisted ==
  Executed
    => /\ Len(results.Failures) = Len(FailedMutations)
       /\ results.Failures = <<>>
            => /\ Len(CallsOf({"SaveState"})) = 1
               /\ CallsOf({"SaveState"})[1].ok
                    => /\ DOMAIN store = {domains[i].Host : i \in 1..Len(domains)}
                       /\ \A i \in 1..Len(domains) :
                            store[domains[i].Host].ServerName = domains[i].Upstream
                       /\ store = currentState

\* HostA, protected, was skipped and saved by the first run; the second run
\* drops it (its record is unowned, so nothing is deleted) and adds HostP, which
\* is outside every zone: the plan is empty and the snapshot is saved
C20_Witness ==
  /\ Executed
  /\ runs = 2
  /\ cfg.protected = {HostA}
  /\ HostA \in Range(changes.Removed)
  /\ pre.store[HostA].LastSeen = 1
  /\ ExistingAddress(HostA, Zone1) # {}
  /\ ExistingOwnedTXT(HostA, Zone1) = {}
  /\ HostP \in AddedHosts
  /\ plan = EmptyPlan
  /\ results = EmptyResults
  /\ err = ""
  /\ DOMAIN store = {HostP}
  /\ zoneRecs = pre.recs

(***************************************************************************)
(* C21: when every provider operation of a non-dry run succeeded and       *)
(* SaveState then fails, Reconcile returns a non-nil error together with   *)
(* the Results of the operations applied; the provider keeps the           *)
(* mutations, the store keeps its content, and the next run with the same  *)
(* desired list computes the same diff.                                    *)
(***************************************************************************)
\* the provider content after the given calls, applied in order to recs
RECURSIVE ApplyCalls(_, _)
ApplyCalls(recs, cs) ==
  IF cs = <<>> THEN recs
  ELSE LET c == Head(cs)
           next == IF ~c.ok THEN recs
                   ELSE IF c.op = "CreateRecord" THEN ProviderCreate(recs, c.zone, c.rec)
                   ELSE ProviderDelete(recs, c.zone, c.rec)
       IN ApplyCalls(next, Tail(cs))

\* the SaveState call of the current run returned an error
SaveFailed == \E i \in 1..Len(calls) : calls[i].op = "SaveState" /\ ~calls[i].ok

\* C21: a failed save is surfaced with the results, nothing is rolled back,
\* and the retry recomputes the diff of the failed run
C21_SaveFailureSurfaced ==
  /\ (pc = "done" /\ SaveFailed)
       => /\ err # ""
          /\ results.Failures = <<>>
          /\ results.Created = plan.Create
          /\ results.Deleted = plan.Delete
          /\ \A i \in 1..Len(MutationCalls) : MutationCalls[i].ok
          /\ zoneRecs = ApplyCalls(pre.recs, MutationCalls)
          /\ store = pre.store
  /\ (last.saveFailed /\ loaded /\ SameDesired(currentState, last.desired))
       => /\ Range(changes.Added) = last.added
          /\ Range(changes.Removed) = last.removed

C21_Witness ==
  /\ last.saveFailed
  /\ loaded
  /\ SameDesired(currentState, last.desired)
  /\ last.added # {}
  /\ zoneRecs # NoRecords
  /\ pc = "plan"

(***************************************************************************)
(* C22: order of the provider calls of a non-dry run.                      *)
(***************************************************************************)
\* position of zone z in the configured zone list
ZoneIndex(z) == CHOOSE k \in 1..Len(cfg.zones) : cfg.zones[k] = z

\* positions of the mutation calls in calls
MutationPositions == {i \in 1..Len(calls) : calls[i].op \in {"CreateRecord", "DeleteRecord"}}

\* C22 as stated: the mutation calls go zone by zone, all calls of one zone
\* before any call of the next, and within a zone every CreateRecord call
\* precedes every DeleteRecord call
C22_ZoneAtATime ==
  ~cfg.dryRun
    => \A i, j \in 1..Len(MutationCalls) :
         i < j
           => /\ ZoneIndex(MutationCalls[i].zone) <= ZoneIndex(MutationCalls[j].zone)
              /\ (MutationCalls[i].zone = MutationCalls[j].zone
                    => ~(MutationCalls[i].op = "DeleteRecord"
                           /\ MutationCalls[j].op = "CreateRecord"))

\* C22, amended: the zones are listed one at a time before any mutation call;
\* then every CreateRecord call of every zone precedes every DeleteRecord
\* call, the calls are plan.Create followed by plan.Delete in list order, one
\* record at a time, and among the creates and among the deletes the zones
\* follow the configured order
C22_CreatesThenDeletes ==
  ~cfg.dryRun
    => /\ Len(MutationCalls) <= Len(ExpectedOps)
       /\ \A i \in 1..Len(MutationCalls) :
            /\ MutationCalls[i].op = ExpectedOps[i].op
            /\ MutationCalls[i].rec = ExpectedOps[i].rec
       /\ (Executed => Len(MutationCalls) = Len(ExpectedOps))
       /\ \A i, j \in 1..Len(MutationCalls) :
            i < j
              => /\ ~(MutationCalls[i].op = "DeleteRecord"
                        /\ MutationCalls[j].op = "CreateRecord")
                 /\ (MutationCalls[i].op = MutationCalls[j].op
                       => ZoneIndex(MutationCalls[i].zone) <= ZoneIndex(MutationCalls[j].zone))
       /\ \A i \in 1..Len(calls), j \in MutationPositions :
            calls[i].op = "GetRecords" => i < j
       /\ \A i \in 1..Len(CallsOf({"GetRecords"})) :
            CallsOf({"GetRecords"})[i].zone = cfg.zones[i]

\* both zones have creates and deletes, and all of them were issued
C22_Witness ==
  /\ Executed
  /\ \A z \in Range(cfg.zones) :
       /\ \E r \in Range(plan.Create) : r.Zone = z
       /\ \E r \in Range(plan.Delete) : r.Zone = z

(***************************************************************************)
(* C23: the order of the configured zones does not change the sets of      *)
(* records planned, nor the provider content and the persisted state after *)
(* a run in which nothing failed.                                          *)
(***************************************************************************)
Reverse(q) == [i \in 1..Len(q) |-> q[Len(q) + 1 - i]]

\* generatePlan over the given zone list and zone contents: the plans it can
\* return, one per way the partition loop can resolve records of one name
RECURSIVE GeneratePlans(_, _, _, _, _)
GeneratePlans(c, zones, recs, ch, p) ==
  IF zones = <<>> THEN {p}
  ELSE LET zone == Head(zones)
       IN UNION {GeneratePlans(c, Tail(zones), recs, ch,
                               PlanZoneBody(c, zone, recordMap, managedTXT, p, ch)) :
                   recordMap \in PartitionMaps({r \in recs[zone] : IsMainRecord(r)}, zone),
                   managedTXT \in PartitionMaps({r \in recs[zone] : IsManagedTXT(c, r)}, zone)}

\* the records of a plan as sets
PlanSets(q) == [Create |-> Range(q.Create), Delete |-> Range(q.Delete)]

\* the provider content after executePlan has applied plan q without failure
ExecuteOn(recs, q) ==
  ApplyCalls(recs,
             [i \in 1..Len(q.Create) |-> Call("CreateRecord", q.Create[i].Zone, q.Create[i],
                                               TRUE)]
               \o [i \in 1..Len(q.Delete) |-> Call("DeleteRecord", q.Delete[i].Zone,
                                                   q.Delete[i], TRUE)])

\* the plans generatePlan gives with the configured zones in reverse order
ReversedPlans ==
  LET reversed == [cfg EXCEPT !.zones = Reverse(cfg.zones)]
  IN GeneratePlans(reversed, reversed.zones, pre.recs, changes, EmptyPlan)

\* C23: the run's plan is one generatePlan gives for the configured order; the
\* reversed order gives plans with the same Create and Delete sets, and after
\* a run without failure the provider holds what executing the plan of the
\* reversed order gives, and the store holds the desired state
C23_ZoneOrderIndependent ==
  /\ pc = "execute"
       => LET mine == GeneratePlans(cfg, cfg.zones, pre.recs, changes, EmptyPlan)
          IN /\ plan \in mine
             /\ {PlanSets(q) : q \in mine} = {PlanSets(q) : q \in ReversedPlans}
  /\ FailureFree
       => /\ \E q \in ReversedPlans : PlanSets(q) = PlanSets(plan)
          /\ \A q \in ReversedPlans :
               PlanSets(q) = PlanSets(plan)
                 => /\ zoneRecs = ExecuteOn(pre.recs, q)
                    /\ SameDesired(store, currentState)

\* a run without failure over a zone and the zone below it, with creates and
\* deletes in both
C23_Witness ==
  /\ FailureFree
  /\ ZoneSub \in Range(cfg.zones)
  /\ \A z \in Range(cfg.zones) :
       /\ \E r \in Range(plan.Create) : r.Zone = z
       /\ \E r \in Range(plan.Delete) : r.Zone = z

(***************************************************************************)
(* C24: a host belongs to a zone exactly when it is the zone or ends with  *)
(* "." and the zone; its record name is "@" for the zone itself and        *)
(* otherwise the host without the trailing "." and zone, whatever the      *)
(* number of labels left; a host outside every configured zone gets no     *)
(* plan entry.                                                             *)
(***************************************************************************)
\* host h is zone z or some suffix of h is "." followed by z
InZone(h, z) == h = z \/ \E k \in 1..Len(h) : SubSeq(h, k, Len(h)) = <<".">> \o z

\* the name of in-zone host h relative to zone z
RelativeName(h, z) == IF h = z THEN <<"@">> ELSE SubSeq(h, 1, Len(h) - Len(z) - 1)

\* the hosts of the run's diff
DiffHosts == AddedHosts \cup Range(changes.Removed)

\* C24: membership, naming, and no plan entry without an in-zone host
C24_ZoneMembershipAndNaming ==
  /\ \A h \in ZoneHosts, z \in {Zone1, Zone2, ZoneSub} :
       /\ belongsToZone(h, z) <=> InZone(h, z)
       /\ InZone(h, z) => getRecordName(h, z) = RelativeName(h, z)
  /\ ~belongsToZone(HostNear, Zone1)
  /\ belongsToZone(HostDeep, Zone1)
  /\ getRecordName(HostDeep, Zone1) = <<"a", ".", "b">>
  /\ getRecordName(HostA, Zone1) = <<"a">>
  /\ getRecordName(Zone1, Zone1) = <<"@">>
  /\ \A r \in Range(plan.Create) \cup Range(plan.Delete) :
       /\ r.Zone \in Range(cfg.zones)
       /\ \E h \in DiffHosts : InZone(h, r.Zone) /\ RelName(r) = RelativeName(h, r.Zone)

\* a.b.e.c and xe.c were both added; the plan names only a.b, in e.c
C24_Witness ==
  /\ pc = "execute"
  /\ AddedHosts = {HostDeep, HostNear}
  /\ Len(plan.Create) = 2
  /\ \A r \in Range(plan.Create) : r.Name = <<"a", ".", "b">> /\ r.Zone = Zone1

(***************************************************************************)
(* C25: the address or alias record planned for an added host carries the  *)
(* upstream's host or IP literal, without port and without brackets, and   *)
(* the type that literal classifies to.                                    *)
(***************************************************************************)
\* the host or IP literal of an upstream: the text inside the brackets when
\* it starts with one, otherwise the text before the port's colon
LiteralOf(u) ==
  IF HasPrefix(u, <<"[">>)
  THEN SubSeq(u, 2, Index(u, <<"]">>) - 1)
  ELSE Cut(u, <<":">>).before

\* C25: the address or alias record planned for an added host has the literal
\* of the host's upstream as data and that literal's type
C25_UpstreamHost ==
  pc = "execute"
    => \A d \in Range(changes.Added) :
         \A r \in Range(plan.Create) :
           (/\ belongsToZone(d.Host, r.Zone)
            /\ r.Name = getRecordName(d.Host, r.Zone)
            /\ r.Type # "TXT")
             => /\ r.Data = LiteralOf(d.Upstream)
                /\ r.Type = getRecordType(LiteralOf(d.Upstream))

(***************************************************************************)
(* C26: getRecordType gives A for an IPv4 literal, AAAA for an IPv6        *)
(* literal (bare, in brackets, in brackets with a port) and CNAME for      *)
(* anything else.                                                          *)
(***************************************************************************)
\* x is an IPv6 literal, bare, in brackets, or in brackets followed by a port
IsIPv6Form(x) ==
  \/ IsIPv6(x)
  \/ /\ HasPrefix(x, <<"[">>)
     /\ Contains(x, <<"]">>)
     /\ IsIPv6(SubSeq(x, 2, Index(x, <<"]">>) - 1))
     /\ \/ Index(x, <<"]">>) = Len(x)
        \/ x[Index(x, <<"]">>) + 1] = ":"

ClaimedType(x) == IF IsIPv4(x) THEN "A" ELSE IF IsIPv6Form(x) THEN "AAAA" ELSE "CNAME"

\* C26: the type of every record planned for an added host is the one claimed
\* for the text getRecordType was given, the record's data
C26_TypeClassification ==
  pc = "execute"
    => \A r \in Range(plan.Create) :
         r.Type # "TXT" => r.Type = getRecordType(r.Data) /\ r.Type = ClaimedType(r.Data)

(***************************************************************************)
(* C27: every TXT record in plan.Create has as data exactly                *)
(* heritage=caddy-dns-sync,caddy-dns-sync/owner=<owner>, with the          *)
(* configured owner and no quoting, and a TXT record with exactly that     *)
(* data is taken as owned when a later run partitions the zone's records.  *)
(***************************************************************************)
\* "heritage=caddy-dns-sync,caddy-dns-sync/owner="
MarkerText ==
  <<"h", "e", "r", "i", "t", "a", "g", "e", "=", "c", "a", "d", "d", "y",
    "-", "d", "n", "s", "-", "s", "y", "n", "c", ",", "c", "a", "d", "d",
    "y", "-", "d", "n", "s", "-", "s", "y", "n", "c", "/", "o", "w", "n",
    "e", "r", "=">>

\* r is a TXT record whose data is the marker with the configured owner
IsMarkerTXT(r) == r.Type = "TXT" /\ r.Data = MarkerText \o cfg.owner

\* C27: the planned TXT data is the marker; a fetched TXT record with the
\* marker is filed as owned, so the removal of its host plans its deletion
C27_MarkerFormat ==
  /\ \A r \in Range(plan.Create) : r.Type = "TXT" => IsMarkerTXT(r)
  /\ \A z \in Range(cfg.zones) :
       \A r \in pre.recs[z] : IsMarkerTXT(r) => IsManagedTXT(cfg, r)
  /\ pc = "execute"
       => \A h \in Range(changes.Removed) :
            \A z \in Range(cfg.zones) :
              (belongsToZone(h, z) /\ ~isProtected(cfg, getRecordName(h, z)))
                => \A r \in pre.recs[z] :
                     (IsMarkerTXT(r) /\ RelName(r) = getRecordName(h, z))
                       => r \in Range(plan.Delete)

\* the second run finds the TXT record the first run created and plans to
\* delete it with its host
C27_Witness ==
  /\ pc = "execute"
  /\ runs = 2
  /\ changes.Removed # <<>>
  /\ \E r \in Range(plan.Delete) :
       /\ IsMarkerTXT(r)
       /\ r \in pre.recs[r.Zone]

(***************************************************************************)
(* C28: LoadState after a successful SaveState(s) returns exactly the      *)
(* hosts and values of s, whatever was saved before: hosts of earlier      *)
(* saves that s does not have are gone.                                    *)
(***************************************************************************)
\* the last call of the run was a SaveState that succeeded
SaveSucceeded ==
  /\ pc = "done"
  /\ calls # <<>>
  /\ calls[Len(calls)].op = "SaveState"
  /\ calls[Len(calls)].ok

\* C28: what LoadState reads from the database is what the engine is given
\* as the previous state, and after a successful save it is the saved state
C28_ReplaceRoundTrip ==
  /\ BadgerLoadState(db) = store
  /\ SaveSucceeded
       => /\ BadgerLoadState(db) = currentState
          /\ StoredHosts(db) = DOMAIN currentState
          /\ \A k \in DOMAIN db : HasPrefix(k, domainPrefix)

\* the second save of a behaviour drops a host the first save had stored
C28_Witness ==
  /\ SaveSucceeded
  /\ runs = 2
  /\ last.clean
  /\ currentState # EmptyState
  /\ \E h \in DOMAIN pre.store : h \notin DOMAIN currentState

(***************************************************************************)
(* C30: the service has at most one Reconcile call in flight; the sync     *)
(* loop starts the next performSync only after the previous one returned,  *)
(* however many ticks went by meanwhile.                                   *)
(***************************************************************************)
\* C30: while Reconcile runs the loop is inside performSync, and a sync
\* starts only when no call is in flight
C30_Serialized ==
  /\ svc.inFlight <= 1
  /\ pc \notin {"idle", "done"} => (svc.loop = "sync" /\ svc.inFlight = 1)
  /\ svc.loop \in {"begin", "select", "stopped"} => svc.inFlight = 0

\* a tick went by while the second Reconcile call was issuing creates
C30_Witness ==
  /\ runs = 2
  /\ pc = "create"
  /\ svc.tick
  /\ svc.inFlight = 1

(***************************************************************************)
(* C29: a configuration loaded with no dry-run value in the file and none  *)
(* in the environment has dry-run enabled, and the engine built from it    *)
(* makes no provider mutation and writes no state.                         *)
(***************************************************************************)
\* C29: the default configuration is a dry-run one
C29_DryRunByDefault ==
  /\ LoadDryRun("absent", <<>>)
  /\ cfg.dryRun
  /\ MutationCalls = <<>>
  /\ CallsOf({"SaveState"}) = <<>>
  /\ zoneRecs = NoRecords
  /\ store = EmptyState

\* what Load does with the values it is given: the environment wins when it
\* parses, the file otherwise
LoadDryRunTable ==
  \A file \in FileDryRun, env \in EnvDryRun :
    LoadDryRun(file, env)
      = (IF env \in {<<"t", "r", "u", "e">>, <<"T", "R", "U", "E">>} THEN TRUE
         ELSE IF env = <<"f", "a", "l", "s", "e">> THEN FALSE
         ELSE file = "true")

(***************************************************************************)
(* C31: once the shutdown signal has cancelled the context, and every      *)
(* performSync call returns, runSyncLoop sees the cancellation and         *)
(* returns, main's wg.Wait completes, and the state manager is closed only *)
(* after the last sync has finished.                                       *)
(***************************************************************************)
\* main has returned and closed the state manager
Closed == svc.main = "exited"

\* C31: the cancellation leads to main's exit, and at the exit the loop has
\* stopped with no Reconcile call in flight or under way
C31_ShutdownTerminates ==
  /\ svc.cancelled ~> Closed
  /\ [](Closed => (svc.loop = "stopped" /\ svc.inFlight = 0 /\ pc \in {"idle", "done"}))

\* the signal came while the second sync was issuing creates, and main has
\* exited after it
C31_Witness ==
  /\ Closed
  /\ runs = 2
  /\ results.Created # <<>>
  /\ cancelledAt = -1

(***************************************************************************)
(* C32: when the source's Domains call fails in a sync cycle, performSync  *)
(* returns without calling Reconcile: the cycle makes no provider call and *)
(* no state write, and the failure is not taken for an empty desired list. *)
(***************************************************************************)
\* C32: the step of performSync in which Domains fails ends the cycle, the
\* loop going to its select, with no call started and the engine, the zones
\* and the store as they were
C32_SourceFailureSkipsEngine ==
  [][(svc.loop = "begin" /\ svc'.loop # "begin" /\ svc'.sourceErr)
       => /\ svc'.loop = "select"
          /\ svc'.inFlight = 0
          /\ UNCHANGED <<cfg, store, zoneRecs, pc, runs, faults, pre, loaded,
                         currentState, changes, zi, plan, ci, results, err, calls,
                         last, domains, db>>]_vars

\* the source failed in a cycle after one that created and stored a host:
\* the host's records and its stored entry are still there
C32_Witness ==
  /\ svc.sourceErr
  /\ svc.loop = "select"
  /\ runs = 1
  /\ HostA \in DOMAIN store
  /\ BadgerLoadState(db) = store
  /\ \E r \in zoneRecs[Zone1] : IsMainRecord(r)

SameRecord(a, b) ==
  a.Zone = b.Zone /\ a.Name = b.Name /\ a.Type = b.Type /\ a.Data = b.Data

\* C34: no record of plan.Create is also in plan.Delete
C34_NoSelfCancellingPlan ==
  \A i \in 1..Len(plan.Create), j \in 1..Len(plan.Delete) :
     ~SameRecord(plan.Create[i], plan.Delete[j])

(***************************************************************************)
(* C35: with a fixed desired list, Reconcile invoked repeatedly and, from   *)
(* some point on, every provider and store call succeeding, a run          *)
(* eventually persists a state equal to the desired list, and every later  *)
(* run short-circuits with an empty diff and no provider call.             *)
(***************************************************************************)
\* the store holds the desired list, and the last run found an empty diff and
\* returned after LoadState
ShortCircuited ==
  /\ pc = "done"
  /\ SameDesired(store, BuildState(domains, runs))
  /\ SameDesired(BadgerLoadState(db), store)
  /\ loaded
  /\ err = ""
  /\ IsEmpty(changes)
  /\ calls = <<Call("LoadState", <<>>, NoRecord, TRUE)>>

\* C35 as stated: from some run on, every run short-circuits over a store that
\* holds the desired list
C35_EventualConvergence == <>[]ShortCircuited

\* C35 for an engine that is not in dry-run mode
C35_ConvergenceWhenApplying == (~cfg.dryRun) => <>[]ShortCircuited

\* a run that short-circuits after two runs that did not: one that ran into
\* a failed operation or save, and one that persisted the desired list
C35_Witness ==
  /\ ShortCircuited
  /\ ~cfg.dryRun
  /\ faults > 0
  /\ last.ran /\ last.clean /\ last.added # {}
  /\ domains # <<>>

(***************************************************************************)
(* C36: when no configured zone equals or is a dot-suffix of another, a    *)
(* host of the diff has plan entries in at most one zone, every record of  *)
(* plan.Create and plan.Delete carries the zone its host was matched in,   *)
(* and that zone is the one passed to the provider call for the record.    *)
(***************************************************************************)
\* no configured zone is equal to or a dot-suffix of another one
DisjointZones ==
  \A i, j \in 1..Len(cfg.zones) : i # j => ~InZone(cfg.zones[i], cfg.zones[j])

\* the records of the plan
PlanRecords == Range(plan.Create) \cup Range(plan.Delete)

\* the zones in which host h has plan entries
ZonesOf(h) == {z \in Range(cfg.zones) : PlanEntries(h, z) # {} /\ InZone(h, z)}

\* C36: one zone per host, the record's zone is the zone of the match and of
\* the provider call
C36_OneZonePerHost ==
  DisjointZones =>
    /\ \A h \in DiffHosts : Cardinality(ZonesOf(h)) <= 1
    /\ \A r \in PlanRecords :
         /\ r.Zone \in Range(cfg.zones)
         /\ \E h \in DiffHosts : InZone(h, r.Zone) /\ RelName(r) = RelativeName(h, r.Zone)
    /\ \A i \in 1..Len(calls) :
         calls[i].op \in {"CreateRecord", "DeleteRecord"}
           => calls[i].zone = calls[i].rec.Zone /\ calls[i].rec \in PlanRecords

\* the same without the condition on the zones
OneZoneWhateverZones ==
  /\ \A h \in DiffHosts : Cardinality(ZonesOf(h)) <= 1
  /\ \A r \in PlanRecords : r.Zone \in Range(cfg.zones)

\* two disjoint zones, the second configured first: a host added in one and a
\* host removed from the other, every planned operation issued
C36_Witness ==
  /\ cfg.zones = <<Zone2, Zone1>>
  /\ pc = "persist"
  /\ \E r \in Range(plan.Create) : r.Zone = Zone1
  /\ \E r \in Range(plan.Delete) : r.Zone = Zone2
  /\ \A r \in Range(plan.Create) : r.Zone # Zone2
  /\ Len(MutationCalls) = Len(plan.Create) + Len(plan.Delete)

(***************************************************************************)
(* C37: for every reverse_proxy handler with an upstream, Domains emits    *)
(* one entry with the first upstream's dial address and the host of the    *)
(* innermost enclosing route that has a host matcher; a nested route       *)
(* without a host matcher uses the host of its enclosing route.            *)
(***************************************************************************)
\* the host matched by a route, or the given one when it has no host matcher
RouteHost(route, enclosing) ==
  IF route.Match # <<>> /\ Len(route.Match[1].Host) > 0 THEN route.Match[1].Host[1]
  ELSE enclosing

\* the entries of the handlers and of the routes under a route whose
\* innermost host is the given one
RECURSIVE EntriesOfHandlers(_, _)
RECURSIVE EntriesOfRoutes(_, _)
EntriesOfHandlers(host, handlers) ==
  IF handlers = <<>> THEN <<>>
  ELSE LET handler == Head(handlers)
       IN (IF handler.Handler = "subroute" THEN EntriesOfRoutes(host, handler.Routes)
           ELSE IF handler.Handler = "reverse_proxy" /\ Len(handler.Upstreams) > 0
           THEN <<[Host |-> host, Upstream |-> handler.Upstreams[1]]>>
           ELSE <<>>)
            \o EntriesOfHandlers(host, Tail(handlers))

EntriesOfRoutes(enclosing, routes) ==
  IF routes = <<>> THEN <<>>
  ELSE EntriesOfHandlers(RouteHost(Head(routes), enclosing), Head(routes).Handle)
         \o EntriesOfRoutes(enclosing, Tail(routes))

\* C37: the list a run was called with has one entry for every proxy of the
\* served configuration, under the innermost host
C37_MostSpecificHost ==
  pc # "idle" =>
    LET expected == EntriesOfRoutes(<<>>, svc.config)
    IN /\ Len(domains) = Len(expected)
       /\ Range(domains) = Range(expected)

====
